---- MODULE Spec2Model ----
(***************************************************************************)
(* The annotation command engine of pdf_reader_9000: the annotation store  *)
(* (core/pdf_document.py), HighlightCommand and CommandHistory             *)
(* (core/command.py) and the shell handlers of ui/main_window.py that      *)
(* drive them.                                                             *)
(*                                                                         *)
(* fitz.Rect objects are mutable and shared by reference between a command *)
(* (self.rects) and the store records it creates (annotation['rect']), so  *)
(* rectangles live in rect_objs and are referred to by their position.     *)
(* Indices kept by the code (annotation_indices) are 0-based as in Python; *)
(* TLA+ sequences are 1-based.                                             *)
(***************************************************************************)
EXTENDS Integers, Sequences, FiniteSets, TLC

VARIABLES
    rect_objs,        \* the live fitz.Rect objects: Seq of [x0, y0, x1, y1]
    doc,              \* PDFDocument.doc: NoDoc or the path of the open file
    annotations,      \* PDFDocument.annotations
    undo_stack,       \* CommandHistory.undo_stack
    redo_stack,       \* CommandHistory.redo_stack
    max_stack_size,   \* CommandHistory.max_stack_size
    app,              \* "running" while a MainWindow exists, else "closed"
    settings,         \* the persisted QSettings
    undo_enabled,     \* MainWindow.undo_action.isEnabled()
    redo_enabled,     \* MainWindow.redo_action.isEnabled()
    zoom_level,       \* MainWindow.zoom_level, in quarters (6 is 150%)
    highlight_color,  \* MainWindow.highlight_color
    page_widgets,     \* MainWindow.page_widgets: the selection of each page
    current_selection_info,  \* MainWindow.current_selection_info
    last,             \* observation: the operation that produced this state
    rt,               \* observation: progress of an execute; undo; redo sequence
    run,              \* observation: the executes made in a row on an empty history
    atSave,           \* observation: the session as it was when it was saved
    probe,            \* observation: the inputs of a component called on its own
    sessions          \* observation: the number of MainWindows built so far

coreVars == <<rect_objs, doc, annotations, undo_stack, redo_stack, max_stack_size>>
shellVars == <<app, settings, undo_enabled, redo_enabled, zoom_level,
               highlight_color, page_widgets, current_selection_info,
               atSave, sessions>>
vars == <<rect_objs, doc, annotations, undo_stack, redo_stack, max_stack_size,
          app, settings, undo_enabled, redo_enabled, zoom_level,
          highlight_color, page_widgets, current_selection_info,
          last, rt, run, atSave, probe, sessions>>

(***************************************************************************)
(* Bounds of the model and constants of the program.                       *)
(***************************************************************************)
MaxStore == 4
StackCap == 2
MaxRun == 4

\* CommandHistory.__init__(self, max_stack_size: int = 100)
DefaultMaxStackSize == 100

NoDoc == "none"
Files == {"a.pdf", "b.pdf"}
PageCount(path) == IF path = "a.pdf" THEN 2 ELSE 1

RectA == [x0 |-> 10, y0 |-> 0, x1 |-> 20, y1 |-> 10]
RectB == [x0 |-> 10, y0 |-> 12, x1 |-> 30, y1 |-> 22]
Yellow == [r |-> 255, g |-> 255, b |-> 0, a |-> 100]
Green == [r |-> 0, g |-> 255, b |-> 0, a |-> 100]

\* The commands a caller of CommandHistory.execute submits in this model.
CommandInputs ==
    { [rects |-> <<>>, page_num |-> 0, color |-> Yellow],
      [rects |-> <<RectA>>, page_num |-> 0, color |-> Yellow],
      [rects |-> <<RectA, RectB>>, page_num |-> 0, color |-> Green],
      [rects |-> <<RectB>>, page_num |-> 1, color |-> Yellow] }

(***************************************************************************)
(* The shell's constants (ui/main_window.py).                              *)
(***************************************************************************)
\* self.zoom_level = 1.5, in quarters
DefaultZoom == 6

\* selection_start / selection_end / a char index that is None
None == -1

NoInfo == [text |-> <<>>, page_num |-> None]

\* QSettings with nothing stored
NoSettings ==
    [last_file |-> NoDoc,
     annotations |-> [present |-> FALSE, value |-> <<>>],
     command_history |-> [present |-> FALSE, value |-> <<>>],
     hide_redo_warning |-> FALSE,
     zoom_level |-> None]

(***************************************************************************)
(* Python list operations.                                                 *)
(***************************************************************************)
Min(a, b) == IF a <= b THEN a ELSE b

\* list.insert(idx, x) for 0 <= idx <= len(s)
InsertAt(s, idx, x) == SubSeq(s, 1, idx) \o <<x>> \o SubSeq(s, idx + 1, Len(s))

\* list.pop(idx) for 0 <= idx < len(s): the list that remains
RemoveAt(s, idx) == SubSeq(s, 1, idx) \o SubSeq(s, idx + 2, Len(s))

Reverse(s) == [i \in 1..Len(s) |-> s[Len(s) + 1 - i]]

(***************************************************************************)
(* PDFDocument: the annotation store.  w is the pair of the rectangle      *)
(* objects and the document: [heap, annotations, doc].                     *)
(***************************************************************************)
World == [heap |-> rect_objs, annotations |-> annotations, doc |-> doc]

\* rect.x0 -= 1; rect.x1 += 1
Pad(r) == [r EXCEPT !.x0 = @ - 1, !.x1 = @ + 1]

\* PDFDocument.add_highlight: rect is a fitz.Rect, so it is padded in place
\* and the record refers to the very object the caller passed.
add_highlight(w, rect, page_num, color) ==
    LET heap2 == [w.heap EXCEPT ![rect] = Pad(@)]
        annotation == [type |-> "highlight", rect |-> rect,
                       page |-> page_num, color |-> color]
    IN  [w EXCEPT !.heap = heap2, !.annotations = Append(@, annotation)]

\* self.doc[page_num] raises for a page the document does not have
PageLoads(w, page_num) == page_num >= 0 /\ page_num < PageCount(w.doc)

\* Mutant of remove_annotation: on the error the popped record is put back
\* at the end of the store.
remove_annotation_PutBackAtEnd(w, index) ==
    IF 0 <= index /\ index < Len(w.annotations)
    THEN LET page_num == w.annotations[index + 1].page
             annotation == w.annotations[index + 1]
             popped == RemoveAt(w.annotations, index)
         IN  IF w.doc # NoDoc /\ ~PageLoads(w, page_num)
             THEN [ok |-> FALSE,
                   w |-> [w EXCEPT !.annotations = Append(popped, annotation)]]
             ELSE [ok |-> TRUE, w |-> [w EXCEPT !.annotations = popped]]
    ELSE [ok |-> FALSE, w |-> w]

\* Mutant of remove_annotation: on the error the popped record is not put
\* back.
remove_annotation_NoPutBack(w, index) ==
    IF 0 <= index /\ index < Len(w.annotations)
    THEN LET page_num == w.annotations[index + 1].page
             popped == RemoveAt(w.annotations, index)
         IN  IF w.doc # NoDoc /\ ~PageLoads(w, page_num)
             THEN [ok |-> FALSE, w |-> [w EXCEPT !.annotations = popped]]
             ELSE [ok |-> TRUE, w |-> [w EXCEPT !.annotations = popped]]
    ELSE [ok |-> FALSE, w |-> w]

\* PDFDocument.remove_annotation: [ok, w]
remove_annotation(w, index) ==
    IF 0 <= index /\ index < Len(w.annotations)
    THEN LET page_num == w.annotations[index + 1].page
             annotation == w.annotations[index + 1]
             popped == RemoveAt(w.annotations, index)
         IN  IF w.doc # NoDoc /\ ~PageLoads(w, page_num)
             THEN \* except: the popped record is put back at index
                  [ok |-> FALSE,
                   w |-> [w EXCEPT !.annotations = InsertAt(popped, index, annotation)]]
             ELSE [ok |-> TRUE, w |-> [w EXCEPT !.annotations = popped]]
    ELSE [ok |-> FALSE, w |-> w]

(***************************************************************************)
(* HighlightCommand.                                                       *)
(***************************************************************************)
\* HighlightCommand.__init__ on freshly built fitz.Rect objects: [cmd, w]
NewHighlightCommand(w, rectvals, page_num, color) ==
    LET n == Len(w.heap)
    IN  [cmd |-> [rects |-> [i \in 1..Len(rectvals) |-> n + i],
                  page_num |-> page_num,
                  color |-> color,
                  annotation_indices |-> <<>>,
                  removed_annotations |-> <<>>],
         w |-> [w EXCEPT !.heap = @ \o rectvals]]

\* Mutant of RestoreRemoved: every record of the snapshot is appended.
RECURSIVE RestoreRemoved_Appends(_, _, _)
RestoreRemoved_Appends(idxs, anns, store) ==
    IF idxs = <<>> \/ anns = <<>> THEN store
    ELSE RestoreRemoved_Appends(Tail(idxs), Tail(anns), Append(store, Head(anns)))

\* for idx, annotation in zip(self.annotation_indices, self.removed_annotations)
RECURSIVE RestoreRemoved(_, _, _)
RestoreRemoved(idxs, anns, store) ==
    IF idxs = <<>> \/ anns = <<>> THEN store
    ELSE LET idx == Head(idxs)
             store2 == IF idx <= Len(store)
                       THEN InsertAt(store, idx, Head(anns))
                       ELSE Append(store, Head(anns))
         IN  RestoreRemoved(Tail(idxs), Tail(anns), store2)

\* for rect in self.rects: add_highlight; annotation_indices.append(len - 1)
RECURSIVE AddNew(_, _, _)
AddNew(rects, cmd, w) ==
    IF rects = <<>> THEN [cmd |-> cmd, w |-> w]
    ELSE LET w2 == add_highlight(w, Head(rects), cmd.page_num, cmd.color)
             cmd2 == [cmd EXCEPT !.annotation_indices =
                                     Append(@, Len(w2.annotations) - 1)]
         IN  AddNew(Tail(rects), cmd2, w2)

\* Mutant of HighlightCommand_execute: a redo adds the highlights anew, as
\* the first execute did.
HighlightCommand_execute_AlwaysAdds(cmd, w) ==
    LET r == AddNew(cmd.rects, [cmd EXCEPT !.annotation_indices = <<>>,
                                           !.removed_annotations = <<>>], w)
    IN  [ok |-> TRUE, cmd |-> r.cmd, w |-> r.w]

\* HighlightCommand.execute: [ok, cmd, w]
HighlightCommand_execute(cmd, w) ==
    IF cmd.removed_annotations # <<>>
    THEN [ok |-> TRUE,
          cmd |-> [cmd EXCEPT !.removed_annotations = <<>>],
          w |-> [w EXCEPT !.annotations =
                     RestoreRemoved(cmd.annotation_indices,
                                    cmd.removed_annotations, @)]]
    ELSE LET r == AddNew(cmd.rects, cmd, w)
         IN  [ok |-> TRUE, cmd |-> r.cmd, w |-> r.w]

\* Mutant of Snapshot: the removed record is appended, not put first.
Snapshot_Appends(removed, annotation) == Append(removed, annotation)

\* self.removed_annotations.insert(0, self.pdf_doc.annotations[idx])
Snapshot(removed, annotation) == <<annotation>> \o removed

\* for idx in reversed(self.annotation_indices): [ok, removed, w]
RECURSIVE UndoLoop(_, _, _)
UndoLoop(idxs, removed, w) ==
    IF idxs = <<>> THEN [ok |-> TRUE, removed |-> removed, w |-> w]
    ELSE LET idx == Head(idxs)
         IN  IF 0 <= idx /\ idx < Len(w.annotations)
             THEN LET removed2 == Snapshot(removed, w.annotations[idx + 1])
                      r == remove_annotation(w, idx)
                  IN  IF ~r.ok
                      THEN [ok |-> FALSE, removed |-> removed2, w |-> r.w]
                      ELSE UndoLoop(Tail(idxs), removed2, r.w)
             ELSE UndoLoop(Tail(idxs), removed, w)

\* Mutant of HighlightCommand_undo: a command without indices is undone with
\* success.
HighlightCommand_undo_EmptySucceeds(cmd, w) ==
    LET r == UndoLoop(Reverse(cmd.annotation_indices), <<>>, w)
    IN  [ok |-> r.ok,
         cmd |-> [cmd EXCEPT !.removed_annotations = r.removed],
         w |-> r.w]

\* Mutant of HighlightCommand_undo: the indices are walked in ascending order.
HighlightCommand_undo_Ascending(cmd, w) ==
    IF cmd.annotation_indices = <<>>
    THEN [ok |-> FALSE, cmd |-> cmd, w |-> w]
    ELSE LET r == UndoLoop(cmd.annotation_indices, <<>>, w)
         IN  [ok |-> r.ok,
              cmd |-> [cmd EXCEPT !.removed_annotations = r.removed],
              w |-> r.w]

\* HighlightCommand.undo: [ok, cmd, w]
HighlightCommand_undo(cmd, w) ==
    IF cmd.annotation_indices = <<>>
    THEN [ok |-> FALSE, cmd |-> cmd, w |-> w]
    ELSE LET r == UndoLoop(Reverse(cmd.annotation_indices), <<>>, w)
         IN  [ok |-> r.ok,
              cmd |-> [cmd EXCEPT !.removed_annotations = r.removed],
              w |-> r.w]

(***************************************************************************)
(* CommandHistory.  h is [undo_stack, redo_stack, max_stack_size].         *)
(***************************************************************************)
History == [undo_stack |-> undo_stack, redo_stack |-> redo_stack,
            max_stack_size |-> max_stack_size]

\* CommandHistory.__init__
NewHistory(size) == [undo_stack |-> <<>>, redo_stack |-> <<>>,
                     max_stack_size |-> size]

\* Mutant of Push: nothing is evicted over the cap.
Push_NoEviction(stack, command, size) == Append(stack, command)

\* Mutant of Push: over the cap, the newest entry is dropped, not the oldest.
Push_EvictsNewest(stack, command, size) ==
    LET s == Append(stack, command)
    IN  IF Len(s) > size THEN SubSeq(s, 1, Len(s) - 1) ELSE s

\* stack.append(command); if len(stack) > max_stack_size: stack.pop(0)
Push(stack, command, size) ==
    LET s == Append(stack, command)
    IN  IF Len(s) > size THEN Tail(s) ELSE s

\* Mutant of will_lose_redo_history: the loss is never announced.
will_lose_redo_history_Never(h) == FALSE

will_lose_redo_history(h) == Len(h.redo_stack) > 0

\* A Command whose execute() reports failure.  Command is an abstract class
\* and CommandHistory.execute takes any Command; HighlightCommand.execute
\* itself always returns True.
FailingCommand == [type |-> "failing"]

\* command.execute(): [ok, cmd, w]
Command_execute(command, w) ==
    IF command = FailingCommand THEN [ok |-> FALSE, cmd |-> command, w |-> w]
    ELSE HighlightCommand_execute(command, w)

\* Mutant of CommandHistory_execute: a failed execute clears the redo stack.
CommandHistory_execute_ClearsRedoOnFailure(h, command, w) ==
    LET r == Command_execute(command, w)
    IN  IF r.ok
        THEN [ok |-> TRUE,
              h |-> [h EXCEPT !.undo_stack = Push(@, r.cmd, h.max_stack_size),
                              !.redo_stack = <<>>],
              w |-> r.w]
        ELSE [ok |-> FALSE, h |-> [h EXCEPT !.redo_stack = <<>>], w |-> r.w]

\* Mutant of CommandHistory_execute: the redo stack is not cleared.
CommandHistory_execute_KeepsRedo(h, command, w) ==
    LET r == Command_execute(command, w)
    IN  IF r.ok
        THEN [ok |-> TRUE,
              h |-> [h EXCEPT !.undo_stack = Push(@, r.cmd, h.max_stack_size)],
              w |-> r.w]
        ELSE [ok |-> FALSE, h |-> h, w |-> r.w]

\* CommandHistory.execute: [ok, h, w]
CommandHistory_execute(h, command, w) ==
    LET r == Command_execute(command, w)
    IN  IF r.ok
        THEN [ok |-> TRUE,
              h |-> [h EXCEPT !.undo_stack = Push(@, r.cmd, h.max_stack_size),
                              !.redo_stack = <<>>],
              w |-> r.w]
        ELSE [ok |-> FALSE, h |-> h, w |-> r.w]

\* Mutant of CommandHistory_undo: a command whose undo failed stays on the
\* undo stack.
CommandHistory_undo_RequeuesFailed(h, w) ==
    IF h.undo_stack = <<>> THEN [ok |-> FALSE, h |-> h, w |-> w]
    ELSE LET command == h.undo_stack[Len(h.undo_stack)]
             popped == SubSeq(h.undo_stack, 1, Len(h.undo_stack) - 1)
             r == HighlightCommand_undo(command, w)
         IN  IF r.ok
             THEN [ok |-> TRUE,
                   h |-> [h EXCEPT !.undo_stack = popped,
                                   !.redo_stack = Push(@, r.cmd, h.max_stack_size)],
                   w |-> r.w]
             ELSE [ok |-> FALSE, h |-> h, w |-> r.w]

\* CommandHistory.undo: [ok, h, w]
CommandHistory_undo(h, w) ==
    IF h.undo_stack = <<>> THEN [ok |-> FALSE, h |-> h, w |-> w]
    ELSE LET command == h.undo_stack[Len(h.undo_stack)]
             popped == SubSeq(h.undo_stack, 1, Len(h.undo_stack) - 1)
             r == HighlightCommand_undo(command, w)
         IN  IF r.ok
             THEN [ok |-> TRUE,
                   h |-> [h EXCEPT !.undo_stack = popped,
                                   !.redo_stack = Push(@, r.cmd, h.max_stack_size)],
                   w |-> r.w]
             ELSE [ok |-> FALSE, h |-> [h EXCEPT !.undo_stack = popped], w |-> r.w]

\* Mutant of CommandHistory_redo: on an empty redo stack the undo stack is
\* emptied.
CommandHistory_redo_EmptyClearsUndo(h, w) ==
    IF h.redo_stack = <<>>
    THEN [ok |-> FALSE, h |-> [h EXCEPT !.undo_stack = <<>>], w |-> w]
    ELSE LET command == h.redo_stack[Len(h.redo_stack)]
             popped == SubSeq(h.redo_stack, 1, Len(h.redo_stack) - 1)
             r == Command_execute(command, w)
         IN  IF r.ok
             THEN [ok |-> TRUE,
                   h |-> [h EXCEPT !.redo_stack = popped,
                                   !.undo_stack = Push(@, r.cmd, h.max_stack_size)],
                   w |-> r.w]
             ELSE [ok |-> FALSE, h |-> [h EXCEPT !.redo_stack = popped], w |-> r.w]

\* Mutant of CommandHistory_redo: a successful redo discards the commands
\* that were still waiting on the redo stack.
CommandHistory_redo_Branches(h, w) ==
    IF h.redo_stack = <<>> THEN [ok |-> FALSE, h |-> h, w |-> w]
    ELSE LET command == h.redo_stack[Len(h.redo_stack)]
             popped == SubSeq(h.redo_stack, 1, Len(h.redo_stack) - 1)
             r == Command_execute(command, w)
         IN  IF r.ok
             THEN [ok |-> TRUE,
                   h |-> [h EXCEPT !.redo_stack = <<>>,
                                   !.undo_stack = Push(@, r.cmd, h.max_stack_size)],
                   w |-> r.w]
             ELSE [ok |-> FALSE, h |-> [h EXCEPT !.redo_stack = popped], w |-> r.w]

\* CommandHistory.redo: [ok, h, w]
CommandHistory_redo(h, w) ==
    IF h.redo_stack = <<>> THEN [ok |-> FALSE, h |-> h, w |-> w]
    ELSE LET command == h.redo_stack[Len(h.redo_stack)]
             popped == SubSeq(h.redo_stack, 1, Len(h.redo_stack) - 1)
             r == Command_execute(command, w)
         IN  IF r.ok
             THEN [ok |-> TRUE,
                   h |-> [h EXCEPT !.redo_stack = popped,
                                   !.undo_stack = Push(@, r.cmd, h.max_stack_size)],
                   w |-> r.w]
             ELSE [ok |-> FALSE, h |-> [h EXCEPT !.redo_stack = popped], w |-> r.w]

\* Mutant of clear: the stacks are left as they are.
clear_KeepsStacks(h) == h

\* CommandHistory.clear
clear(h) == [h EXCEPT !.undo_stack = <<>>, !.redo_stack = <<>>]

\* HighlightCommand.to_dict: the rectangles are read through the objects
HighlightCommand_to_dict(cmd, heap) ==
    [type |-> "highlight",
     rects |-> [i \in 1..Len(cmd.rects) |->
                   [x0 |-> heap[cmd.rects[i]].x0, y0 |-> heap[cmd.rects[i]].y0,
                    x1 |-> heap[cmd.rects[i]].x1, y1 |-> heap[cmd.rects[i]].y1]],
     page_num |-> cmd.page_num,
     color |-> [r |-> cmd.color.r, g |-> cmd.color.g,
                b |-> cmd.color.b, a |-> cmd.color.a],
     annotation_indices |-> cmd.annotation_indices]

\* Mutant of HighlightCommand_from_dict: the persisted indices are not taken.
HighlightCommand_from_dict_NoIndices(data, w) ==
    NewHighlightCommand(w, data.rects, data.page_num, data.color)

\* HighlightCommand.from_dict: new fitz.Rect objects, the indices as persisted,
\* removed_annotations empty as __init__ leaves it: [cmd, w]
HighlightCommand_from_dict(data, w) ==
    LET rects == [i \in 1..Len(data.rects) |->
                     [x0 |-> data.rects[i].x0, y0 |-> data.rects[i].y0,
                      x1 |-> data.rects[i].x1, y1 |-> data.rects[i].y1]]
        color == [r |-> data.color.r, g |-> data.color.g,
                  b |-> data.color.b, a |-> data.color.a]
        new == NewHighlightCommand(w, rects, data.page_num, color)
    IN  [cmd |-> [new.cmd EXCEPT !.annotation_indices = data.annotation_indices],
         w |-> new.w]

\* CommandHistory.to_dict
CommandHistory_to_dict(h, heap) ==
    [undo_stack |-> [i \in 1..Len(h.undo_stack) |->
                        HighlightCommand_to_dict(h.undo_stack[i], heap)],
     redo_stack |-> [i \in 1..Len(h.redo_stack) |->
                        HighlightCommand_to_dict(h.redo_stack[i], heap)],
     max_stack_size |-> h.max_stack_size]

\* cmd_data['type'], and data['rects'], data['color'], data['page_num'] in
\* from_dict, raise KeyError when the key is missing
CommandKeys == {"rects", "color", "page_num"}

\* Mutant of LoadStack: every command read is executed before it is put on
\* the stack.
RECURSIVE LoadStack_Replays(_, _, _)
LoadStack_Replays(datas, stack, w) ==
    IF datas = <<>> THEN [stack |-> stack, w |-> w, raised |-> FALSE]
    ELSE IF "type" \notin DOMAIN Head(datas)
         THEN [stack |-> stack, w |-> w, raised |-> TRUE]
         ELSE IF Head(datas).type = "highlight"
              THEN IF CommandKeys \subseteq DOMAIN Head(datas)
                   THEN LET r == HighlightCommand_from_dict(Head(datas), w)
                            e == HighlightCommand_execute(r.cmd, r.w)
                        IN  LoadStack_Replays(Tail(datas), Append(stack, e.cmd), e.w)
                   ELSE [stack |-> stack, w |-> w, raised |-> TRUE]
              ELSE LoadStack_Replays(Tail(datas), stack, w)

\* for cmd_data in data[...]: if cmd_data['type'] == 'highlight': append(from_dict)
\* raised: a KeyError left the loop, the commands appended before it stay
RECURSIVE LoadStack(_, _, _)
LoadStack(datas, stack, w) ==
    IF datas = <<>> THEN [stack |-> stack, w |-> w, raised |-> FALSE]
    ELSE IF "type" \notin DOMAIN Head(datas)
         THEN [stack |-> stack, w |-> w, raised |-> TRUE]
         ELSE IF Head(datas).type = "highlight"
              THEN IF CommandKeys \subseteq DOMAIN Head(datas)
                   THEN LET r == HighlightCommand_from_dict(Head(datas), w)
                        IN  LoadStack(Tail(datas), Append(stack, r.cmd), r.w)
                   ELSE [stack |-> stack, w |-> w, raised |-> TRUE]
              ELSE LoadStack(Tail(datas), stack, w)

\* CommandHistory.load_from_dict: [h, w, raised]; an exception in the first
\* loop leaves the redo stack as clear() made it
CommandHistory_load_from_dict(h, data, w) ==
    LET h0 == clear(h)
        u == LoadStack(data.undo_stack, h0.undo_stack, w)
        r == IF u.raised THEN [stack |-> h0.redo_stack, w |-> u.w, raised |-> TRUE]
             ELSE LoadStack(data.redo_stack, h0.redo_stack, u.w)
    IN  [h |-> [undo_stack |-> u.stack, redo_stack |-> r.stack,
                max_stack_size |-> data.max_stack_size],
         w |-> r.w,
         raised |-> r.raised]

(***************************************************************************)
(* Rectangle objects no list refers to any more are freed, and the ones    *)
(* that remain are numbered in the order the store and the stacks reach    *)
(* them, so that a state does not depend on allocation order.              *)
(***************************************************************************)
AnnRefs(anns) == [i \in 1..Len(anns) |-> anns[i].rect]

CmdRefs(c) == c.rects \o AnnRefs(c.removed_annotations)

RECURSIVE StackRefs(_)
StackRefs(s) == IF s = <<>> THEN <<>> ELSE CmdRefs(Head(s)) \o StackRefs(Tail(s))

RECURSIVE Distinct(_, _)
Distinct(s, acc) ==
    IF s = <<>> THEN acc
    ELSE Distinct(Tail(s),
                  IF \E i \in 1..Len(acc) : acc[i] = Head(s)
                  THEN acc ELSE Append(acc, Head(s)))

Collect(w, h) ==
    LET order == Distinct(AnnRefs(w.annotations) \o StackRefs(h.undo_stack)
                              \o StackRefs(h.redo_stack), <<>>)
        ren(id) == CHOOSE k \in 1..Len(order) : order[k] = id
        renAnn(a) == [a EXCEPT !.rect = ren(@)]
        renAnns(s) == [i \in 1..Len(s) |-> renAnn(s[i])]
        renCmd(c) == [c EXCEPT !.rects = [i \in 1..Len(@) |-> ren(@[i])],
                               !.removed_annotations = renAnns(@)]
        renStack(s) == [i \in 1..Len(s) |-> renCmd(s[i])]
    IN  [heap |-> [k \in 1..Len(order) |-> w.heap[order[k]]],
         annotations |-> renAnns(w.annotations),
         undo_stack |-> renStack(h.undo_stack),
         redo_stack |-> renStack(h.redo_stack)]

(***************************************************************************)
(* What a list holds, by value: the rectangles read through the objects.   *)
(***************************************************************************)
AnnVal(heap, a) == [type |-> a.type, rect |-> heap[a.rect],
                    page |-> a.page, color |-> a.color]

StoreVal(heap, anns) == [i \in 1..Len(anns) |-> AnnVal(heap, anns[i])]

CmdVal(heap, c) ==
    [rects |-> [i \in 1..Len(c.rects) |-> heap[c.rects[i]]],
     page_num |-> c.page_num,
     color |-> c.color,
     annotation_indices |-> c.annotation_indices,
     removed_annotations |-> StoreVal(heap, c.removed_annotations)]

StackVal(heap, s) == [i \in 1..Len(s) |-> CmdVal(heap, s[i])]

\* records_for_page: the records of one page, in store order
PageRecords(vals, p) == SelectSeq(vals, LAMBDA a : a.page = p)

(***************************************************************************)
(* The shell: MainWindow and PDFDisplayWidget.  Lengths on screen are in   *)
(* quarters of a pixel, so that coordinate * zoom is an integer for every  *)
(* zoom of the combo box (50% .. 400%, all multiples of 25%).              *)
(***************************************************************************)
Max(a, b) == IF a >= b THEN a ELSE b
Abs(a) == IF a >= 0 THEN a ELSE 0 - a

\* page.get_text("dict"): the text spans of each page of the files
DocSpans(path, page_num) ==
    IF path = "a.pdf" /\ page_num = 0
    THEN << [text |-> <<"a", "b">>, bbox |-> [x0 |-> 10, y0 |-> 0, x1 |-> 30, y1 |-> 10]],
            [text |-> <<"c">>, bbox |-> [x0 |-> 10, y0 |-> 12, x1 |-> 20, y1 |-> 22]] >>
    ELSE IF path = "a.pdf" /\ page_num = 1
    THEN <<>>
    ELSE << [text |-> <<"e">>, bbox |-> [x0 |-> 10, y0 |-> 0, x1 |-> 20, y1 |-> 10]] >>

\* MainWindow.render_pdf: scaled_rect of a span, in quarter pixels
ScaledRect(bbox, zoom) ==
    [x |-> Max(0, bbox.x0 * zoom),
     y |-> Max(0, bbox.y0 * zoom),
     width |-> Max(4, (bbox.x1 - bbox.x0) * zoom),
     height |-> Max(4, (bbox.y1 - bbox.y0) * zoom)]

\* PDFDisplayWidget.set_text_blocks: one block per character of a span
CharBlocks(text, rect) ==
    LET char_width == rect.width \div Len(text)
    IN  [i \in 1..Len(text) |->
            [text |-> text[i],
             rect |-> [x |-> rect.x + (i - 1) * char_width, y |-> rect.y,
                       width |-> char_width, height |-> rect.height]]]

RECURSIVE SpanBlocks(_, _)
SpanBlocks(spans, zoom) ==
    IF spans = <<>> THEN <<>>
    ELSE (IF Head(spans).text = <<>> THEN <<>>
          ELSE CharBlocks(Head(spans).text, ScaledRect(Head(spans).bbox, zoom)))
         \o SpanBlocks(Tail(spans), zoom)

\* page_widget.text_blocks as render_pdf sets them
TextBlocks(path, page_num, zoom) == SpanBlocks(DocSpans(path, page_num), zoom)

\* render_pdf: one new PDFDisplayWidget per page, nothing selected
RenderWidgets(path) ==
    IF path = NoDoc THEN page_widgets
    ELSE [p \in 1..PageCount(path) |->
             [selection_start |-> None, selection_end |-> None,
              is_selecting |-> FALSE]]

\* PDFDisplayWidget.update_selection -> MainWindow.handle_text_selection
SelectedText(blocks, a, b) ==
    LET start_idx == Min(a, b)
        end_idx == Max(a, b)
    IN  [i \in 1..(end_idx - start_idx + 1) |-> blocks[start_idx + i].text]

\* fitz.Rect(x_start / zoom, y / zoom, x_end / zoom, (y + height) / zoom)
LineRect(current_line, zoom) ==
    LET xs == {current_line[i].x : i \in 1..Len(current_line)}
        xe == {current_line[i].x + current_line[i].width : i \in 1..Len(current_line)}
        x_start == CHOOSE v \in xs : \A u \in xs : v <= u
        x_end == CHOOSE v \in xe : \A u \in xe : v >= u
    IN  [x0 |-> x_start \div zoom,
         y0 |-> current_line[1].y \div zoom,
         x1 |-> x_end \div zoom,
         y1 |-> (current_line[1].y + current_line[1].height) \div zoom]

\* highlight_selected_text: for i in range(start_idx, end_idx + 1), with i
\* counted from 0; current_y is int(rect['y']) of the line's first block
RECURSIVE GroupLines(_, _, _, _, _, _, _)
GroupLines(blocks, i, end_idx, current_line, current_y, selected_rects, zoom) ==
    IF i > end_idx \/ i >= Len(blocks)
    THEN IF current_line # <<>>
         THEN Append(selected_rects, LineRect(current_line, zoom))
         ELSE selected_rects
    ELSE LET rect == blocks[i + 1].rect
             y == rect.y \div 4
         IN  IF current_y = None \/ 8 * Abs(y - current_y) > rect.height
             THEN GroupLines(blocks, i + 1, end_idx, <<rect>>, y,
                             IF current_line # <<>>
                             THEN Append(selected_rects, LineRect(current_line, zoom))
                             ELSE selected_rects,
                             zoom)
             ELSE GroupLines(blocks, i + 1, end_idx, Append(current_line, rect),
                             current_y, selected_rects, zoom)

\* Mutant of SelectedRects: indices beyond the hit-boxes are taken as the
\* last hit-box.
SelectedRects_Clamps(blocks, a, b, zoom) ==
    IF blocks = <<>> THEN <<>>
    ELSE GroupLines(blocks, Min(Min(a, b), Len(blocks) - 1),
                    Min(Max(a, b), Len(blocks) - 1), <<>>, None, <<>>, zoom)

SelectedRects(blocks, a, b, zoom) ==
    GroupLines(blocks, Min(a, b), Max(a, b), <<>>, None, <<>>, zoom)

\* highlight_selected_text: the first block index where text starts, or None
FindText(blocks, text) ==
    LET matches(i) == \A j \in 1..Len(text) :
                          i + j - 1 <= Len(blocks) /\ blocks[i + j - 1].text = text[j]
        hits == {i \in 1..Len(blocks) : matches(i)}
    IN  IF hits = {} THEN None
        ELSE (CHOOSE i \in hits : \A k \in hits : i <= k) - 1

\* MainWindow.update_undo_redo_actions
UpdateUndoRedoActions(h) ==
    /\ undo_enabled' = (Len(h.undo_stack) > 0)
    /\ redo_enabled' = (Len(h.redo_stack) > 0)

\* json.dumps / json.loads of lists, dicts and numbers
json_dumps(value) == [json |-> value]
json_loads(text) == text.json

(***************************************************************************)
(* Observations kept for the properties; the program has no such fields.   *)
(***************************************************************************)
NoSave == [saved |-> FALSE, store |-> <<>>, undoKnown |-> FALSE, undoOwned |-> {},
           redoKnown |-> FALSE, redoRecords |-> {}]
NoRt == [step |-> 0, page |-> 0, snap |-> <<>>]
NoRun == [valid |-> FALSE, base |-> <<>>, cmds |-> <<>>]
NoProbe == [kind |-> "none"]
NoOp == [op |-> "init", ok |-> TRUE, n |-> 0, hadUndo |-> FALSE, hadRedo |-> FALSE,
         afterLoad |-> FALSE]

\* the operation op, its result, the number of regions of the command it
\* handled, and what the history was like before it
Op(op, ok, n) ==
    [op |-> op, ok |-> ok, n |-> n,
     hadUndo |-> undo_stack # <<>>, hadRedo |-> redo_stack # <<>>,
     afterLoad |-> last.op = "load" /\ last.ok]

Top(stack) == stack[Len(stack)]

\* the run of executes made in a row since the history was empty
RunAfterExecute(c) ==
    IF undo_stack = <<>> /\ redo_stack = <<>>
    THEN [valid |-> TRUE, base |-> StoreVal(rect_objs, annotations), cmds |-> <<c>>]
    ELSE IF run.valid /\ Len(run.cmds) < MaxRun
         THEN [run EXCEPT !.cmds = Append(@, c)]
         ELSE NoRun

(***************************************************************************)
(* The operations of CommandHistory, called by a client of the core.       *)
(***************************************************************************)
Store(w, h) ==
    LET g == Collect(w, h)
    IN  /\ rect_objs' = g.heap
        /\ annotations' = g.annotations
        /\ undo_stack' = g.undo_stack
        /\ redo_stack' = g.redo_stack
        /\ max_stack_size' = h.max_stack_size
        /\ doc' = w.doc

HistoryExecute(c) ==
    /\ last.op # "reload"
    /\ UNCHANGED <<shellVars, probe>>
    /\ Len(annotations) + Len(c.rects) <= MaxStore
    /\ LET new == NewHighlightCommand(World, c.rects, c.page_num, c.color)
           r == CommandHistory_execute(History, new.cmd, new.w)
           g == Collect(r.w, r.h)
       IN  /\ Store(r.w, r.h)
           /\ last' = Op("execute", r.ok, Len(c.rects))
           /\ rt' = IF r.ok /\ Len(c.rects) >= 1
                    THEN [step |-> 1, page |-> c.page_num,
                          snap |-> PageRecords(StoreVal(g.heap, g.annotations),
                                               c.page_num)]
                    ELSE NoRt
           /\ run' = IF r.ok THEN RunAfterExecute(c) ELSE NoRun

\* the client submits a command whose execute() reports failure
HistoryExecuteFailing ==
    LET r == CommandHistory_execute(History, FailingCommand, World)
    IN  /\ last.op # "reload"
        /\ UNCHANGED <<shellVars, probe>>
        /\ Store(r.w, r.h)
        /\ last' = Op("execute", r.ok, 0)
        /\ rt' = NoRt
        /\ run' = NoRun

HistoryUndo ==
    LET r == CommandHistory_undo(History, World)
    IN  /\ last.op # "reload"
        /\ UNCHANGED <<shellVars, probe>>
        /\ Store(r.w, r.h)
        /\ last' = Op("undo", r.ok,
                      IF undo_stack = <<>> THEN 0 ELSE Len(Top(undo_stack).rects))
        /\ rt' = IF rt.step = 1 THEN [rt EXCEPT !.step = 2] ELSE NoRt
        /\ run' = NoRun

HistoryRedo ==
    LET r == CommandHistory_redo(History, World)
    IN  /\ last.op # "reload"
        /\ UNCHANGED <<shellVars, probe>>
        /\ Store(r.w, r.h)
        /\ last' = Op("redo", r.ok,
                      IF redo_stack = <<>> THEN 0 ELSE Len(Top(redo_stack).rects))
        /\ rt' = IF rt.step = 2 THEN [rt EXCEPT !.step = 3] ELSE NoRt
        /\ run' = NoRun

\* A fresh PDFDocument, not bound to any file
FreshWorld == [heap |-> <<>>, annotations |-> <<>>, doc |-> NoDoc]

\* The client serializes the history and loads the result into a fresh
\* CommandHistory bound to a fresh store, which it keeps; the run ends there.
HistoryReload ==
    LET data == CommandHistory_to_dict(History, rect_objs)
        r == CommandHistory_load_from_dict(NewHistory(DefaultMaxStackSize), data,
                                           FreshWorld)
    IN  /\ last.op # "reload"
        /\ UNCHANGED <<shellVars, probe>>
        /\ Store(r.w, r.h)
        /\ last' = Op("reload", TRUE, Len(undo_stack) + Len(redo_stack))
        /\ rt' = NoRt
        /\ run' = NoRun

\* A CommandHistory(max_stack_size) on an empty store, the document open or not.
InitHistory ==
    /\ rect_objs = <<>>
    /\ doc \in {NoDoc, "b.pdf"}
    /\ annotations = <<>>
    /\ undo_stack = <<>>
    /\ redo_stack = <<>>
    /\ max_stack_size = StackCap
    /\ last = NoOp
    /\ rt = NoRt
    /\ run = NoRun
    /\ app = "running"
    /\ settings = NoSettings
    /\ undo_enabled = FALSE
    /\ redo_enabled = FALSE
    /\ zoom_level = DefaultZoom
    /\ highlight_color = Yellow
    /\ page_widgets = <<>>
    /\ current_selection_info = NoInfo
    /\ atSave = NoSave
    /\ probe = NoProbe
    /\ sessions = 1

NextHistory ==
    \/ \E c \in CommandInputs : HistoryExecute(c)
    \/ HistoryExecuteFailing
    \/ HistoryUndo
    \/ HistoryRedo
    \/ HistoryReload

SpecHistory == InitHistory /\ [][NextHistory]_vars

(***************************************************************************)
(* The operations of PDFDocument, called by a client of the store alone.   *)
(***************************************************************************)
\* The arguments a caller of PDFDocument.add_highlight passes in this model.
StoreInputs ==
    { [rect |-> RectA, page_num |-> 0, color |-> Yellow],
      [rect |-> RectB, page_num |-> 0, color |-> Green],
      [rect |-> RectB, page_num |-> 1, color |-> Yellow] }

\* what the client did: the store as the add_highlight calls built it, the
\* indices it then passed to remove_annotation, the lowest of them, and
\* what the last call returned
StoreProbe(base, removed, low, ok) ==
    [kind |-> "store", base |-> base, removed |-> removed, low |-> low, ok |-> ok]

\* add_highlight(fitz.Rect(...), page_num, color), before any removal
StoreAdd(a) ==
    /\ probe.removed = {}
    /\ Len(annotations) < MaxStore
    /\ LET w1 == [World EXCEPT !.heap = Append(@, a.rect)]
           w2 == add_highlight(w1, Len(w1.heap), a.page_num, a.color)
           g == Collect(w2, History)
       IN  /\ Store(w2, History)
           /\ probe' = StoreProbe(StoreVal(g.heap, g.annotations), {},
                                   Len(g.annotations), TRUE)
    /\ UNCHANGED <<shellVars, last, rt, run>>

\* remove_annotation(index), the indices coming in strictly descending order
StoreRemove(index) ==
    /\ index < probe.low
    /\ LET r == remove_annotation(World, index)
       IN  /\ Store(r.w, History)
           /\ probe' = StoreProbe(probe.base, probe.removed \cup {index}, index,
                                   r.ok)
    /\ UNCHANGED <<shellVars, last, rt, run>>

\* remove_annotation(index) with an index that is not a position of the store
StoreRemoveOutside(index) ==
    /\ index < 0 \/ index >= Len(annotations)
    /\ LET r == remove_annotation(World, index)
       IN  /\ Store(r.w, History)
           /\ probe' = [probe EXCEPT !.ok = r.ok]
    /\ UNCHANGED <<shellVars, last, rt, run>>

\* A PDFDocument with no annotation, a document open or not.
InitStore ==
    /\ rect_objs = <<>>
    /\ doc \in {NoDoc, "b.pdf"}
    /\ annotations = <<>>
    /\ undo_stack = <<>>
    /\ redo_stack = <<>>
    /\ max_stack_size = DefaultMaxStackSize
    /\ last = NoOp
    /\ rt = NoRt
    /\ run = NoRun
    /\ app = "running"
    /\ settings = NoSettings
    /\ undo_enabled = FALSE
    /\ redo_enabled = FALSE
    /\ zoom_level = DefaultZoom
    /\ highlight_color = Yellow
    /\ page_widgets = <<>>
    /\ current_selection_info = NoInfo
    /\ atSave = NoSave
    /\ probe = StoreProbe(<<>>, {}, 0, TRUE)
    /\ sessions = 1

NextStore ==
    \/ \E a \in StoreInputs : StoreAdd(a)
    \/ \E index \in 0..(MaxStore - 1) : StoreRemove(index)
    \/ \E index \in -1..MaxStore : StoreRemoveOutside(index)

SpecStore == InitStore /\ [][NextStore]_vars

(***************************************************************************)
(* The line grouping of highlight_selected_text, applied to the hit-boxes  *)
(* of a page of two spans at a zoom of the combo box.                      *)
(***************************************************************************)
\* page.get_text("dict") of a page with the spans "ab" and "cd": the tops
\* and the height of the two spans vary
PageSpans ==
    { << [text |-> <<"a", "b">>,
          bbox |-> [x0 |-> 10, y0 |-> t1, x1 |-> 30, y1 |-> t1 + h]],
         [text |-> <<"c", "d">>,
          bbox |-> [x0 |-> 10, y0 |-> t2, x1 |-> 30, y1 |-> t2 + h]] >> :
      t1 \in {0, 1}, t2 \in {0, 7, 12}, h \in {10, 13} }

\* zoom_combo: 75%, 100% and 150%, in quarters
ComboZooms == {3, 4, 6}

\* render_pdf at zoom, then the grouping loop of highlight_selected_text
\* with selection_start = a and selection_end = b
GroupSelection(spans, zoom, a, b) ==
    /\ LET blocks == SpanBlocks(spans, zoom)
       IN  /\ a < Len(blocks)
           /\ b < Len(blocks)
           /\ probe' = [kind |-> "lines", blocks |-> blocks, zoom |-> zoom,
                        start_idx |-> Min(a, b), end_idx |-> Max(a, b),
                        selected_rects |-> SelectedRects(blocks, a, b, zoom)]
    /\ UNCHANGED <<coreVars, shellVars, last, rt, run>>

InitLines ==
    /\ rect_objs = <<>>
    /\ doc = NoDoc
    /\ annotations = <<>>
    /\ undo_stack = <<>>
    /\ redo_stack = <<>>
    /\ max_stack_size = DefaultMaxStackSize
    /\ last = NoOp
    /\ rt = NoRt
    /\ run = NoRun
    /\ app = "running"
    /\ settings = NoSettings
    /\ undo_enabled = FALSE
    /\ redo_enabled = FALSE
    /\ zoom_level = DefaultZoom
    /\ highlight_color = Yellow
    /\ page_widgets = <<>>
    /\ current_selection_info = NoInfo
    /\ atSave = NoSave
    /\ probe = NoProbe
    /\ sessions = 1

NextLines ==
    \E spans \in PageSpans, zoom \in ComboZooms, a \in 0..3, b \in 0..3 :
        GroupSelection(spans, zoom, a, b)

SpecLines == InitLines /\ [][NextLines]_vars

(***************************************************************************)
(* PDFDisplayWidget.find_word_boundaries over the hit-boxes of a widget.   *)
(***************************************************************************)
MaxUnits == 4
Units == {"a", "b", " "}

\* str.isspace() of the one character of a hit-box
isspace(text) == text = " "

\* while start > 0 and not self.text_blocks[start-1]['text'].isspace()
RECURSIVE WordStart(_, _)
WordStart(text_blocks, start) ==
    IF start > 0 /\ ~isspace(text_blocks[start].text)
    THEN WordStart(text_blocks, start - 1)
    ELSE start

\* while end < len(self.text_blocks)-1 and
\*       not self.text_blocks[end+1]['text'].isspace()
RECURSIVE WordEnd(_, _)
WordEnd(text_blocks, end) ==
    IF end < Len(text_blocks) - 1 /\ ~isspace(text_blocks[end + 2].text)
    THEN WordEnd(text_blocks, end + 1)
    ELSE end

\* Mutant of find_word_boundaries: the expansion to the left tests the unit
\* it stands on, not the one before it.
RECURSIVE WordStart_TestsOwnUnit(_, _)
WordStart_TestsOwnUnit(text_blocks, start) ==
    IF start > 0 /\ ~isspace(text_blocks[start + 1].text)
    THEN WordStart_TestsOwnUnit(text_blocks, start - 1)
    ELSE start

find_word_boundaries_TestsOwnUnit(text_blocks, char_idx) ==
    IF char_idx = None \/ text_blocks = <<>>
    THEN [start |-> None, end |-> None]
    ELSE [start |-> WordStart_TestsOwnUnit(text_blocks, char_idx),
          end |-> WordEnd(text_blocks, char_idx)]

\* indices are Python's: hit-box i is text_blocks[i + 1] here
find_word_boundaries(text_blocks, char_idx) ==
    IF char_idx = None \/ text_blocks = <<>>
    THEN [start |-> None, end |-> None]
    ELSE [start |-> WordStart(text_blocks, char_idx),
          end |-> WordEnd(text_blocks, char_idx)]

\* the hit-boxes a widget can hold, by their characters
UnitBlocks ==
    UNION { [1..n -> [text : Units]] : n \in 0..MaxUnits }

\* find_word_boundaries called with the index of a hit-box, or with None
FindWord(text_blocks, char_idx) ==
    /\ char_idx = None \/ char_idx < Len(text_blocks)
    /\ LET r == find_word_boundaries(text_blocks, char_idx)
       IN  probe' = [kind |-> "word", text_blocks |-> text_blocks,
                     char_idx |-> char_idx, start |-> r.start, end |-> r.end]
    /\ UNCHANGED <<coreVars, shellVars, last, rt, run>>

NextWords ==
    \E text_blocks \in UnitBlocks, char_idx \in (0..(MaxUnits - 1)) \cup {None} :
        FindWord(text_blocks, char_idx)

SpecWords == InitLines /\ [][NextWords]_vars

(***************************************************************************)
(* A client of CommandHistory whose commands cover several regions, on a   *)
(* page the open document has or on one it does not have.                  *)
(***************************************************************************)
MultiRegionInputs ==
    { [rects |-> <<RectA>>, page_num |-> 0, color |-> Yellow],
      [rects |-> <<RectA, RectB>>, page_num |-> 0, color |-> Green],
      [rects |-> <<RectB, RectA>>, page_num |-> 1, color |-> Yellow] }

NextAtomic ==
    \/ \E c \in MultiRegionInputs : HistoryExecute(c)
    \/ HistoryUndo
    \/ HistoryRedo

SpecAtomic == InitHistory /\ [][NextAtomic]_vars

(***************************************************************************)
(* A client that uses CommandHistory and also removes records from the     *)
(* PDFDocument itself, so that a snapshot's indices can lie beyond the end *)
(* of the store when the command is redone.                                *)
(***************************************************************************)
\* the client calls PDFDocument.remove_annotation(index) while a command it
\* has undone waits on the redo stack
ClientRemove(index) ==
    LET r == remove_annotation(World, index)
    IN  /\ last.op \in {"undo", "remove"}
        /\ redo_stack # <<>>
        /\ UNCHANGED <<shellVars, probe>>
        /\ Store(r.w, History)
        /\ last' = Op("remove", r.ok, 0)
        /\ rt' = NoRt
        /\ run' = NoRun

\* the client submits commands, undoes some, removes records itself and
\* then redoes
NextRedo ==
    \/ \E c \in MultiRegionInputs :
           last.op \in {"init", "execute"} /\ HistoryExecute(c)
    \/ last.op \in {"execute", "undo"} /\ HistoryUndo
    \/ \E index \in 0..(MaxStore - 1) : ClientRemove(index)
    \/ last.op \in {"undo", "remove", "redo"} /\ HistoryRedo

SpecRedo == InitHistory /\ [][NextRedo]_vars

\* the items of s at the positions in P, in order
KeepPos(s, P) ==
    LET F[i \in 0..Len(s)] ==
            IF i = 0 THEN <<>>
            ELSE IF i \in P THEN Append(F[i - 1], s[i]) ELSE F[i - 1]
    IN  F[Len(s)]

Front(s) == SubSeq(s, 1, Len(s) - 1)

\* the positions of the store records that command c created: the records
\* whose rectangle is one of the command's own fitz.Rect objects
OwnedPos(anns, c) ==
    {i \in 1..Len(anns) : \E j \in 1..Len(c.rects) : c.rects[j] = anns[i].rect}

(***************************************************************************)
(* A client of CommandHistory that keeps account of the records of the     *)
(* commands the undo stack has evicted.                                    *)
(***************************************************************************)
\* the records of the evicted commands, oldest first, by value
EvictedRecords == IF probe.kind = "evicted" THEN probe.records ELSE <<>>

\* the account after a push onto the undo stack: when the stack was full,
\* undo_stack.pop(0) evicted its oldest command, whose records stay
AfterPush(pushed) ==
    [kind |-> "evicted",
     records |-> IF pushed /\ Len(undo_stack) >= max_stack_size
                 THEN EvictedRecords
                      \o StoreVal(rect_objs,
                                  KeepPos(annotations,
                                          OwnedPos(annotations, undo_stack[1])))
                 ELSE EvictedRecords]

AccountExecute(c) ==
    /\ Len(annotations) + Len(c.rects) <= MaxStore
    /\ LET new == NewHighlightCommand(World, c.rects, c.page_num, c.color)
           r == CommandHistory_execute(History, new.cmd, new.w)
       IN  /\ Store(r.w, r.h)
           /\ last' = Op("execute", r.ok, Len(c.rects))
           /\ probe' = AfterPush(r.ok)
    /\ rt' = NoRt
    /\ run' = NoRun
    /\ UNCHANGED shellVars

AccountUndo ==
    /\ LET r == CommandHistory_undo(History, World)
       IN  /\ Store(r.w, r.h)
           /\ last' = Op("undo", r.ok,
                         IF undo_stack = <<>> THEN 0 ELSE Len(Top(undo_stack).rects))
    /\ probe' = AfterPush(FALSE)
    /\ rt' = NoRt
    /\ run' = NoRun
    /\ UNCHANGED shellVars

AccountRedo ==
    /\ LET r == CommandHistory_redo(History, World)
       IN  /\ Store(r.w, r.h)
           /\ last' = Op("redo", r.ok,
                         IF redo_stack = <<>> THEN 0 ELSE Len(Top(redo_stack).rects))
           /\ probe' = AfterPush(r.ok)
    /\ rt' = NoRt
    /\ run' = NoRun
    /\ UNCHANGED shellVars

NextAccount ==
    \/ \E c \in CommandInputs : AccountExecute(c)
    \/ AccountUndo
    \/ AccountRedo

SpecAccount == InitHistory /\ [][NextAccount]_vars

(***************************************************************************)
(* The highlight marks of the pages of the open fitz document, kept in     *)
(* probe: the marks the file came with and the ones apply_highlights and   *)
(* save paint.  A client executes, undoes and redoes commands on a.pdf,    *)
(* renders the pages and saves.                                            *)
(***************************************************************************)
MaxMarks == 3

\* a highlight annotation the file a.pdf came with
FileMark == [origin |-> "file"]

\* page.add_highlight_annot(highlight['rect']) with the record's colour
MarkOf(heap, annotation) ==
    [origin |-> "store", rect |-> heap[annotation.rect],
     color |-> annotation.color, page |-> annotation.page]

\* PDFDocument.apply_highlights(page_num): one more mark per record of the
\* page; marks is the sequence of the marks of each page
apply_highlights(marks, heap, anns, page_num) ==
    LET page_highlights == SelectSeq(anns, LAMBDA ann : ann.page = page_num)
    IN  [marks EXCEPT ![page_num + 1] =
            @ \o [i \in 1..Len(page_highlights) |-> MarkOf(heap, page_highlights[i])]]

\* render_pdf: for page_num in range(len(self.pdf_doc.doc)): apply_highlights
RECURSIVE RenderMarks(_, _, _, _)
RenderMarks(marks, heap, anns, page_num) ==
    IF page_num >= Len(marks) THEN marks
    ELSE RenderMarks(apply_highlights(marks, heap, anns, page_num), heap, anns,
                     page_num + 1)

\* PDFDocument.save: for annotation in self.annotations: add_highlight_annot
RECURSIVE SaveMarks(_, _, _)
SaveMarks(marks, heap, anns) ==
    IF anns = <<>> THEN marks
    ELSE SaveMarks([marks EXCEPT ![Head(anns).page + 1] =
                        Append(@, MarkOf(heap, Head(anns)))],
                   heap, Tail(anns))

\* remove_annotation: for annot in page.annots(): if annot.type[0] == 8:
\* page.delete_annot(annot), on the page of each record removed
DeleteMarks(marks, pages) ==
    [p \in 1..Len(marks) |-> IF (p - 1) \in pages THEN <<>> ELSE marks[p]]

PaintExecute(c) ==
    /\ Len(annotations) + Len(c.rects) <= MaxStore
    /\ LET new == NewHighlightCommand(World, c.rects, c.page_num, c.color)
           r == CommandHistory_execute(History, new.cmd, new.w)
       IN  /\ Store(r.w, r.h)
           /\ last' = Op("execute", r.ok, Len(c.rects))
    /\ rt' = NoRt
    /\ run' = NoRun
    /\ UNCHANGED <<shellVars, probe>>

PaintUndo ==
    /\ LET r == CommandHistory_undo(History, World)
           removed == IF undo_stack = <<>> \/ ~r.ok THEN {}
                      ELSE OwnedPos(annotations, Top(undo_stack))
       IN  /\ Store(r.w, r.h)
           /\ last' = Op("undo", r.ok,
                         IF undo_stack = <<>> THEN 0 ELSE Len(Top(undo_stack).rects))
           /\ probe' = [probe EXCEPT !.marks =
                            DeleteMarks(@, {annotations[k].page : k \in removed})]
    /\ rt' = NoRt
    /\ run' = NoRun
    /\ UNCHANGED shellVars

PaintRedo ==
    /\ LET r == CommandHistory_redo(History, World)
       IN  /\ Store(r.w, r.h)
           /\ last' = Op("redo", r.ok,
                         IF redo_stack = <<>> THEN 0 ELSE Len(Top(redo_stack).rects))
    /\ rt' = NoRt
    /\ run' = NoRun
    /\ UNCHANGED <<shellVars, probe>>

\* MainWindow.render_pdf, for what it does to the document
PaintRender ==
    /\ LET marks == RenderMarks(probe.marks, rect_objs, annotations, 0)
       IN  /\ \A p \in 1..Len(marks) : Len(marks[p]) <= MaxMarks
           /\ probe' = [probe EXCEPT !.marks = marks]
    /\ last' = Op("render", TRUE, 0)
    /\ rt' = NoRt
    /\ run' = NoRun
    /\ UNCHANGED <<coreVars, shellVars>>

\* PDFDocument.save(save_path), the file written without error
PaintSave ==
    /\ LET marks == SaveMarks(probe.marks, rect_objs, annotations)
       IN  /\ \A p \in 1..Len(marks) : Len(marks[p]) <= MaxMarks
           /\ probe' = [probe EXCEPT !.marks = marks]
    /\ last' = Op("save", TRUE, 0)
    /\ rt' = NoRt
    /\ run' = NoRun
    /\ UNCHANGED <<coreVars, shellVars>>

\* a.pdf open on an empty store and an empty history, with or without a
\* highlight of its own on its first page
InitPaint ==
    /\ rect_objs = <<>>
    /\ doc = "a.pdf"
    /\ annotations = <<>>
    /\ undo_stack = <<>>
    /\ redo_stack = <<>>
    /\ max_stack_size = StackCap
    /\ last = NoOp
    /\ rt = NoRt
    /\ run = NoRun
    /\ app = "running"
    /\ settings = NoSettings
    /\ undo_enabled = FALSE
    /\ redo_enabled = FALSE
    /\ zoom_level = DefaultZoom
    /\ highlight_color = Yellow
    /\ page_widgets = <<>>
    /\ current_selection_info = NoInfo
    /\ atSave = NoSave
    /\ \E own \in {<<>>, <<FileMark>>} :
           probe = [kind |-> "marks", own |-> <<own, <<>>>>, marks |-> <<own, <<>>>>]
    /\ sessions = 1

NextPaint ==
    \/ \E c \in MultiRegionInputs : PaintExecute(c)
    \/ PaintUndo
    \/ PaintRedo
    \/ PaintRender
    \/ PaintSave

SpecPaint == InitPaint /\ [][NextPaint]_vars

(***************************************************************************)
(* The handlers of the shell.                                              *)
(***************************************************************************)
MaxSessions == 2
MaxShellStore == 2

\* PDFDisplayWidget.mousePressEvent on the widget of page p (from 1), the
\* nearest character being char_idx
mousePressEvent(p, char_idx) ==
    /\ app = "running"
    /\ p \in 1..Len(page_widgets)
    /\ LET blocks == TextBlocks(doc, p - 1, zoom_level)
       IN  /\ char_idx < Len(blocks)
           /\ page_widgets' = [page_widgets EXCEPT ![p] =
                  [selection_start |-> char_idx, selection_end |-> char_idx,
                   is_selecting |-> TRUE]]
           /\ current_selection_info' =
                  [text |-> SelectedText(blocks, char_idx, char_idx),
                   page_num |-> p - 1]
    /\ UNCHANGED <<coreVars, app, settings, undo_enabled, redo_enabled, zoom_level,
                   highlight_color, last, rt, run, atSave, probe, sessions>>

\* PDFDisplayWidget.mouseMoveEvent
mouseMoveEvent(p, char_idx) ==
    /\ app = "running"
    /\ p \in 1..Len(page_widgets)
    /\ page_widgets[p].is_selecting
    /\ LET blocks == TextBlocks(doc, p - 1, zoom_level)
       IN  /\ char_idx < Len(blocks)
           /\ page_widgets' = [page_widgets EXCEPT ![p].selection_end = char_idx]
           /\ current_selection_info' =
                  [text |-> SelectedText(blocks, page_widgets[p].selection_start,
                                         char_idx),
                   page_num |-> p - 1]
    /\ UNCHANGED <<coreVars, app, settings, undo_enabled, redo_enabled, zoom_level,
                   highlight_color, last, rt, run, atSave, probe, sessions>>

\* PDFDisplayWidget.mouseReleaseEvent
mouseReleaseEvent(p) ==
    /\ app = "running"
    /\ p \in 1..Len(page_widgets)
    /\ page_widgets[p].is_selecting
    /\ page_widgets' = [page_widgets EXCEPT ![p].is_selecting = FALSE]
    /\ UNCHANGED <<coreVars, app, settings, undo_enabled, redo_enabled, zoom_level,
                   highlight_color, current_selection_info, last, rt, run, atSave,
                   probe, sessions>>

\* MainWindow.highlight_selected_text; reply and checkbox are what the user
\* answers if the redo warning is shown
highlight_selected_text(reply, checkbox) ==
    /\ app = "running"
    /\ current_selection_info # NoInfo
    /\ current_selection_info.page_num < Len(page_widgets)
    /\ LET page_num == current_selection_info.page_num
           page_widget == page_widgets[page_num + 1]
           blocks == TextBlocks(doc, page_num, zoom_level)
           text == current_selection_info.text
           search == page_widget.selection_start = None
                         \/ page_widget.selection_end = None
           found == IF text = <<>> THEN None ELSE FindText(blocks, text)
           selection_start == IF search THEN found ELSE page_widget.selection_start
           selection_end == IF search THEN found + Len(text) - 1
                            ELSE page_widget.selection_end
           selected_rects == SelectedRects(blocks, selection_start, selection_end,
                                           zoom_level)
           warn == will_lose_redo_history(History) /\ ~settings.hide_redo_warning
           new == NewHighlightCommand(World, selected_rects, page_num, highlight_color)
           r == CommandHistory_execute(History, new.cmd, new.w)
       IN  /\ ~(search /\ found = None)
           /\ IF selected_rects # <<>> /\ warn /\ reply = "No"
              THEN \* return: only the selection the search set is kept
                   /\ page_widgets' = [page_widgets EXCEPT ![page_num + 1] =
                          [@ EXCEPT !.selection_start = selection_start,
                                    !.selection_end = selection_end]]
                   /\ last' = Op("highlight", FALSE, Len(selected_rects))
                              @@ [warned |-> TRUE, reply |-> reply]
                   /\ UNCHANGED <<coreVars, settings, undo_enabled, redo_enabled>>
              ELSE /\ IF selected_rects # <<>>
                      THEN /\ Len(annotations) + Len(selected_rects) <= MaxShellStore
                           /\ Store(r.w, r.h)
                           /\ UpdateUndoRedoActions(r.h)
                           /\ last' = Op("highlight", r.ok, Len(selected_rects))
                                      @@ [warned |-> warn,
                                          reply |-> IF warn THEN reply ELSE "none"]
                      ELSE /\ UpdateUndoRedoActions(History)
                           /\ last' = Op("highlight", FALSE, 0)
                                      @@ [warned |-> FALSE, reply |-> "none"]
                           /\ UNCHANGED coreVars
                   /\ settings' = IF selected_rects # <<>> /\ warn /\ reply = "Yes"
                                      /\ checkbox
                                  THEN [settings EXCEPT !.hide_redo_warning = TRUE]
                                  ELSE settings
                   /\ page_widgets' = RenderWidgets(doc)
    /\ UNCHANGED <<app, zoom_level, highlight_color, current_selection_info,
                   rt, run, atSave, probe, sessions>>

\* MainWindow.undo_last_action
undo_last_action ==
    /\ app = "running"
    /\ LET r == CommandHistory_undo(History, World)
       IN  /\ Store(r.w, r.h)
           /\ last' = Op("undo", r.ok,
                         IF undo_stack = <<>> THEN 0 ELSE Len(Top(undo_stack).rects))
           /\ IF r.ok
              THEN /\ UpdateUndoRedoActions(r.h)
                   /\ page_widgets' = RenderWidgets(doc)
              ELSE UNCHANGED <<undo_enabled, redo_enabled, page_widgets>>
    /\ UNCHANGED <<app, settings, zoom_level, highlight_color,
                   current_selection_info, rt, run, atSave, probe, sessions>>

\* MainWindow.redo_last_action
redo_last_action ==
    /\ app = "running"
    /\ LET r == CommandHistory_redo(History, World)
       IN  /\ Store(r.w, r.h)
           /\ last' = Op("redo", r.ok,
                         IF redo_stack = <<>> THEN 0 ELSE Len(Top(redo_stack).rects))
           /\ IF r.ok
              THEN /\ UpdateUndoRedoActions(r.h)
                   /\ page_widgets' = RenderWidgets(doc)
              ELSE UNCHANGED <<undo_enabled, redo_enabled, page_widgets>>
    /\ UNCHANGED <<app, settings, zoom_level, highlight_color,
                   current_selection_info, rt, run, atSave, probe, sessions>>

\* page.get_text() of a page: the text of its spans, each on a line of its own
RECURSIVE PageText(_)
PageText(spans) ==
    IF spans = <<>> THEN <<>>
    ELSE Head(spans).text \o <<"\n">> \o PageText(Tail(spans))

\* PDFDocument.process_text_data: self.page_text_data
PageTextData(path) ==
    IF path = NoDoc THEN <<>>
    ELSE [p \in 1..PageCount(path) |-> PageText(DocSpans(path, p - 1))]

\* str.lower(), character by character
lower(text) ==
    [i \in 1..Len(text) |->
        IF text[i] = "A" THEN "a" ELSE IF text[i] = "B" THEN "b" ELSE text[i]]

\* text.find(query, start_idx): the least index from start_idx on where
\* query stands in text, or -1
find(text, query, start_idx) ==
    LET hits == {i \in start_idx..(Len(text) - Len(query)) :
                    SubSeq(text, i + 1, i + Len(query)) = query}
    IN  IF hits = {} THEN -1 ELSE CHOOSE i \in hits : \A k \in hits : i <= k

\* the while True loop of perform_search over one page, for a query that is
\* not empty
RECURSIVE PageMatches(_, _, _, _)
PageMatches(page_num, text, query, start_idx) ==
    LET idx == find(lower(text), query, start_idx)
    IN  IF idx = -1 THEN <<>>
        ELSE <<[page_num |-> page_num, start_idx |-> idx,
                end_idx |-> idx + Len(query)]>>
             \o PageMatches(page_num, text, query, idx + Len(query))

\* self.search_results after the loop over page_text_data
RECURSIVE SearchResults(_, _, _)
SearchResults(page_text_data, query, page_num) ==
    IF page_num >= Len(page_text_data) THEN <<>>
    ELSE PageMatches(page_num, page_text_data[page_num + 1], query, 0)
         \o SearchResults(page_text_data, query, page_num + 1)

\* what the user types in the search field
Queries == { <<"a">>, <<"A", "B">>, <<"c">>, <<"e">>, <<"z">> }

\* MainWindow.perform_search on Return in the search field, with
\* highlight_search_result for the first result: highlight_selected_text()
\* runs on the selection made before, then current_selection_info becomes
\* the result and the pages are rendered.  reply and checkbox are what the
\* user answers if highlight_selected_text shows the redo warning.
perform_search(text_typed, reply, checkbox) ==
    /\ app = "running"
    /\ LET query == lower(text_typed)
           page_text_data == PageTextData(doc)
           search_results == SearchResults(page_text_data, query, 0)
           info == current_selection_info
           reaches == /\ search_results # <<>>
                      /\ info # NoInfo
                      /\ info.page_num < Len(page_widgets)
           page_num == info.page_num
           page_widget == page_widgets[page_num + 1]
           blocks == TextBlocks(doc, page_num, zoom_level)
           text == info.text
           search == page_widget.selection_start = None
                         \/ page_widget.selection_end = None
           found == IF text = <<>> THEN None ELSE FindText(blocks, text)
           selects == reaches /\ ~(search /\ found = None)
           selection_start == IF search THEN found ELSE page_widget.selection_start
           selection_end == IF search THEN found + Len(text) - 1
                            ELSE page_widget.selection_end
           selected_rects == IF selects
                             THEN SelectedRects(blocks, selection_start,
                                                selection_end, zoom_level)
                             ELSE <<>>
           warn == will_lose_redo_history(History) /\ ~settings.hide_redo_warning
           declined == selected_rects # <<>> /\ warn /\ reply = "No"
           executes == selected_rects # <<>> /\ ~declined
           new == NewHighlightCommand(World, selected_rects, page_num, highlight_color)
           r == CommandHistory_execute(History, new.cmd, new.w)
       IN  /\ IF executes
              THEN /\ Len(annotations) + Len(selected_rects) <= MaxShellStore
                   /\ Store(r.w, r.h)
              ELSE UNCHANGED coreVars
           /\ IF selects /\ ~declined
              THEN UpdateUndoRedoActions(IF executes THEN r.h ELSE History)
              ELSE UNCHANGED <<undo_enabled, redo_enabled>>
           /\ settings' = IF executes /\ warn /\ checkbox
                          THEN [settings EXCEPT !.hide_redo_warning = TRUE]
                          ELSE settings
           /\ current_selection_info' =
                  IF search_results # <<>>
                  THEN [text |-> SubSeq(page_text_data[search_results[1].page_num + 1],
                                        search_results[1].start_idx + 1,
                                        search_results[1].end_idx),
                        page_num |-> search_results[1].page_num]
                  ELSE current_selection_info
           /\ page_widgets' = RenderWidgets(doc)
           /\ last' = Op("search", executes, Len(selected_rects))
                      @@ [results |-> Len(search_results),
                          warned |-> selected_rects # <<>> /\ warn]
    /\ UNCHANGED <<app, zoom_level, highlight_color, rt, run, atSave, probe,
                   sessions>>

\* PDFDocument.open: fitz.open(path) succeeds (opens) or raises
PDFDocument_open(w, path, opens) ==
    IF opens THEN [ok |-> TRUE, w |-> [w EXCEPT !.doc = path]]
    ELSE [ok |-> FALSE, w |-> w]

\* MainWindow.open_pdf, the dialog returning path
open_pdf(path, opens) ==
    /\ app = "running"
    /\ LET o == PDFDocument_open(World, path, opens)
       IN  IF o.ok
           THEN /\ Store(o.w, clear(History))
                /\ UpdateUndoRedoActions(clear(History))
                /\ page_widgets' = RenderWidgets(o.w.doc)
                /\ last' = Op("open", TRUE, 0)
           ELSE /\ Store(o.w, History)
                /\ last' = Op("open", FALSE, 0)
                /\ UNCHANGED <<undo_enabled, redo_enabled, page_widgets>>
    /\ UNCHANGED <<app, settings, zoom_level, highlight_color,
                   current_selection_info, rt, run, atSave, probe, sessions>>

\* save_current_session: annotations_data
AnnotationsData(heap, anns) ==
    [i \in 1..Len(anns) |->
        [type |-> anns[i].type,
         page |-> anns[i].page,
         color |-> [r |-> anns[i].color.r, g |-> anns[i].color.g,
                    b |-> anns[i].color.b, a |-> anns[i].color.a],
         rect |-> [x0 |-> heap[anns[i].rect].x0, y0 |-> heap[anns[i].rect].y0,
                   x1 |-> heap[anns[i].rect].x1, y1 |-> heap[anns[i].rect].y1]]]

\* MainWindow.save_current_session; exists is os.path.exists(current_path)
save_current_session(exists) ==
    LET s1 == [settings EXCEPT !.zoom_level = zoom_level]
    IN  IF doc # NoDoc /\ exists
        THEN [s1 EXCEPT
                 !.last_file = doc,
                 !.annotations =
                     [present |-> TRUE,
                      value |-> json_dumps(AnnotationsData(rect_objs, annotations))],
                 !.command_history =
                     [present |-> TRUE,
                      value |-> json_dumps(CommandHistory_to_dict(History, rect_objs))]]
        ELSE s1

\* what the session being saved would do next, kept for the properties
SessionAtSave ==
    LET sv == StoreVal(rect_objs, annotations)
        redo == CommandHistory_redo(History, World)
        rsv == StoreVal(redo.w.heap, redo.w.annotations)
        rpos == IF redo_stack = <<>> THEN {}
                ELSE OwnedPos(redo.w.annotations, Top(redo.h.undo_stack))
    IN  [saved |-> TRUE,
         store |-> sv,
         undoKnown |-> /\ undo_stack # <<>>
                       /\ Top(undo_stack).rects # <<>>
                       /\ Cardinality(OwnedPos(annotations, Top(undo_stack)))
                              = Len(Top(undo_stack).rects),
         undoOwned |-> IF undo_stack = <<>> THEN {}
                       ELSE OwnedPos(annotations, Top(undo_stack)),
         redoKnown |-> redo_stack # <<>> /\ redo.ok,
         redoRecords |-> {<<i - 1, rsv[i]>> : i \in rpos}]

\* MainWindow.closeEvent: the session is saved and the process ends
closeEvent(exists) ==
    /\ app = "running"
    /\ settings' = save_current_session(exists)
    /\ atSave' = IF doc # NoDoc /\ exists THEN SessionAtSave ELSE atSave
    /\ app' = "closed"
    /\ rect_objs' = <<>>
    /\ doc' = NoDoc
    /\ annotations' = <<>>
    /\ undo_stack' = <<>>
    /\ redo_stack' = <<>>
    /\ max_stack_size' = DefaultMaxStackSize
    /\ undo_enabled' = FALSE
    /\ redo_enabled' = FALSE
    /\ zoom_level' = DefaultZoom
    /\ highlight_color' = Yellow
    /\ page_widgets' = <<>>
    /\ current_selection_info' = NoInfo
    /\ last' = Op("save", doc # NoDoc /\ exists, 0)
    /\ UNCHANGED <<rt, run, probe, sessions>>

\* ann_dict['color'], ann_dict['rect'] and ann_dict['page'] raise KeyError
\* when the key is missing
AnnotationKeys == {"color", "rect", "page"}

\* load_last_session: for ann_dict in annotations_data: add_highlight(rect, ...)
\* an exception ends the loop: except Exception prints and goes on after it
RECURSIVE RestoreAnnotations(_, _)
RestoreAnnotations(datas, w) ==
    IF datas = <<>> THEN w
    ELSE IF ~(AnnotationKeys \subseteq DOMAIN Head(datas)) THEN w
    ELSE LET ann_dict == Head(datas)
             color == [r |-> ann_dict.color.r, g |-> ann_dict.color.g,
                       b |-> ann_dict.color.b, a |-> ann_dict.color.a]
             rect == [x0 |-> ann_dict.rect.x0, y0 |-> ann_dict.rect.y0,
                      x1 |-> ann_dict.rect.x1, y1 |-> ann_dict.rect.y1]
             w1 == [w EXCEPT !.heap = Append(@, rect)]
         IN  RestoreAnnotations(Tail(datas),
                                add_highlight(w1, Len(w1.heap), ann_dict.page, color))

\* Mutant of LoadSession: the history is loaded before the store entries.
LoadSession_HistoryFirst(s, exists, opens) ==
    LET h0 == NewHistory(DefaultMaxStackSize)
        found == s.last_file # NoDoc /\ exists
        o == IF found THEN PDFDocument_open(FreshWorld, s.last_file, opens)
             ELSE [ok |-> FALSE, w |-> FreshWorld]
    IN  IF o.ok
        THEN LET l == IF s.command_history.present
                      THEN CommandHistory_load_from_dict(
                               h0, json_loads(s.command_history.value), o.w)
                      ELSE [h |-> h0, w |-> o.w, raised |-> FALSE]
                 w1 == IF s.annotations.present
                       THEN RestoreAnnotations(json_loads(s.annotations.value), l.w)
                       ELSE l.w
             IN  [w |-> w1, h |-> l.h,
                  updated |-> s.command_history.present /\ ~l.raised,
                  rendered |-> TRUE, found |-> found, opened |-> TRUE,
                  steps |-> <<"open">>
                            \o (IF s.command_history.present
                                THEN <<"load_from_dict">> ELSE <<>>)
                            \o (IF s.annotations.present
                                THEN <<"add_highlight">> ELSE <<>>)
                            \o <<"render_pdf">>]
        ELSE [w |-> FreshWorld, h |-> h0, updated |-> FALSE, rendered |-> FALSE,
              found |-> found, opened |-> FALSE,
              steps |-> IF found THEN <<"open">> ELSE <<>>]

\* load_last_session from "Restore last opened file" on: the store and the
\* history it leaves, whether update_undo_redo_actions and render_pdf ran,
\* and the calls it made, in order.  exists is os.path.exists(last_file),
\* opens whether fitz.open succeeds.
LoadSession(s, exists, opens) ==
    LET h0 == NewHistory(DefaultMaxStackSize)
        found == s.last_file # NoDoc /\ exists
        o == IF found THEN PDFDocument_open(FreshWorld, s.last_file, opens)
             ELSE [ok |-> FALSE, w |-> FreshWorld]
    IN  IF o.ok
        THEN LET w1 == IF s.annotations.present
                       THEN RestoreAnnotations(json_loads(s.annotations.value), o.w)
                       ELSE o.w
                 l == IF s.command_history.present
                      THEN CommandHistory_load_from_dict(
                               h0, json_loads(s.command_history.value), w1)
                      ELSE [h |-> h0, w |-> w1, raised |-> FALSE]
             IN  [w |-> l.w, h |-> l.h,
                  updated |-> s.command_history.present /\ ~l.raised,
                  rendered |-> TRUE, found |-> found, opened |-> TRUE,
                  steps |-> <<"open">>
                            \o (IF s.annotations.present
                                THEN <<"add_highlight">> ELSE <<>>)
                            \o (IF s.command_history.present
                                THEN <<"load_from_dict">> ELSE <<>>)
                            \o <<"render_pdf">>]
        ELSE [w |-> FreshWorld, h |-> h0, updated |-> FALSE, rendered |-> FALSE,
              found |-> found, opened |-> FALSE,
              steps |-> IF found THEN <<"open">> ELSE <<>>]

\* MainWindow.__init__ and load_last_session; exists is
\* os.path.exists(last_file), opens whether fitz.open succeeds
load_last_session(exists, opens) ==
    /\ app = "closed"
    /\ sessions < MaxSessions
    /\ sessions' = sessions + 1
    /\ app' = "running"
    /\ zoom_level' = IF settings.zoom_level # None THEN settings.zoom_level
                     ELSE DefaultZoom
    /\ highlight_color' = Yellow
    /\ current_selection_info' = NoInfo
    /\ LET r == LoadSession(settings, exists, opens)
       IN  /\ Store(r.w, r.h)
           /\ IF r.updated
              THEN UpdateUndoRedoActions(r.h)
              ELSE undo_enabled' = FALSE /\ redo_enabled' = FALSE
           /\ page_widgets' = IF r.rendered THEN RenderWidgets(r.w.doc) ELSE <<>>
           /\ last' = Op("load", r.rendered, 0)
                          @@ [found |-> r.found, opened |-> r.opened,
                              steps |-> r.steps]
    /\ UNCHANGED <<settings, rt, run, atSave, probe>>

\* The first MainWindow, built with nothing persisted.
Init ==
    /\ rect_objs = <<>>
    /\ doc = NoDoc
    /\ annotations = <<>>
    /\ undo_stack = <<>>
    /\ redo_stack = <<>>
    /\ max_stack_size = DefaultMaxStackSize
    /\ app = "running"
    /\ settings = NoSettings
    /\ undo_enabled = FALSE
    /\ redo_enabled = FALSE
    /\ zoom_level = DefaultZoom
    /\ highlight_color = Yellow
    /\ page_widgets = <<>>
    /\ current_selection_info = NoInfo
    /\ last = NoOp
    /\ rt = NoRt
    /\ run = NoRun
    /\ atSave = NoSave
    /\ probe = NoProbe
    /\ sessions = 1

\* The handlers the user can trigger while a window is open.
NextSession ==
    \/ \E p \in 1..2 : mousePressEvent(p, 0)
    \/ \E p \in 1..2 : mouseMoveEvent(p, Len(TextBlocks(doc, p - 1, zoom_level)) - 1)
    \/ \E p \in 1..2 : mouseReleaseEvent(p)
    \/ \E reply \in {"Yes", "No"}, checkbox \in BOOLEAN :
           highlight_selected_text(reply, checkbox)
    \/ undo_last_action
    \/ redo_last_action
    \/ \E path \in Files, opens \in BOOLEAN : open_pdf(path, opens)

\* The handlers of a window with the search field in use.
NextSearch ==
    \/ NextSession
    \/ \E text_typed \in Queries, reply \in {"Yes", "No"}, checkbox \in BOOLEAN :
           perform_search(text_typed, reply, checkbox)

SpecSearch == Init /\ [][NextSearch]_vars

\* One run of the application, from the first window until it is closed.
SpecSession == Init /\ [][NextSession]_vars

Next ==
    \/ NextSession
    \/ \E exists \in BOOLEAN : closeEvent(exists)
    \/ \E exists \in BOOLEAN, opens \in BOOLEAN : load_last_session(exists, opens)

\* Runs of the application, each loading what the one before it saved.
Spec == Init /\ [][Next]_vars

(***************************************************************************)
(* A window on a.pdf in which the selection indices of a page widget can   *)
(* lie beyond the widget's hit-boxes, over a history that is empty, holds  *)
(* one command, or holds one undone command.                               *)
(***************************************************************************)
\* the stores and histories the window starts with
StartedSessions ==
    LET w0 == [FreshWorld EXCEPT !.doc = "a.pdf"]
        h0 == NewHistory(DefaultMaxStackSize)
        new == NewHighlightCommand(w0, <<RectA>>, 0, Yellow)
        e == CommandHistory_execute(h0, new.cmd, new.w)
        u == CommandHistory_undo(e.h, e.w)
    IN  { [w |-> w0, h |-> h0], [w |-> e.w, h |-> e.h], [w |-> u.w, h |-> u.h] }

InitSelection ==
    /\ \E s \in StartedSessions :
           LET g == Collect(s.w, s.h)
           IN  /\ rect_objs = g.heap
               /\ annotations = g.annotations
               /\ undo_stack = g.undo_stack
               /\ redo_stack = g.redo_stack
               /\ undo_enabled = (g.undo_stack # <<>>)
               /\ redo_enabled = (g.redo_stack # <<>>)
    /\ doc = "a.pdf"
    /\ max_stack_size = DefaultMaxStackSize
    /\ app = "running"
    /\ settings = NoSettings
    /\ zoom_level = DefaultZoom
    /\ highlight_color = Yellow
    /\ \E p \in 1..2, a \in 0..4, b \in 0..4 :
           /\ page_widgets =
                  [q \in 1..2 |->
                      IF q = p
                      THEN [selection_start |-> a, selection_end |-> b,
                            is_selecting |-> FALSE]
                      ELSE [selection_start |-> None, selection_end |-> None,
                            is_selecting |-> FALSE]]
           /\ current_selection_info = [text |-> <<"a">>, page_num |-> p - 1]
    /\ last = NoOp
    /\ rt = NoRt
    /\ run = NoRun
    /\ atSave = NoSave
    /\ probe = NoProbe
    /\ sessions = 1

SpecSelection == InitSelection /\ [][NextSession]_vars

(***************************************************************************)
(* A MainWindow built over what QSettings holds, whoever wrote it: entries *)
(* as save_current_session writes them, and entries with a key missing or  *)
(* a command type that load_from_dict does not know.                       *)
(***************************************************************************)
MaxEntries == 2

\* the entries of the "annotations" list
AnnotationEntries ==
    { [type |-> "highlight", page |-> 0, color |-> Yellow, rect |-> RectA],
      [type |-> "highlight", page |-> 1, color |-> Green, rect |-> RectB],
      [type |-> "highlight", page |-> 0, color |-> Yellow] }

\* the entries of "undo_stack" and "redo_stack" of "command_history"
CommandEntries ==
    { [type |-> "highlight", rects |-> <<RectA>>, page_num |-> 0,
       color |-> Yellow, annotation_indices |-> <<0>>],
      [type |-> "erase", rects |-> <<RectB>>, page_num |-> 0,
       color |-> Green, annotation_indices |-> <<0>>],
      [rects |-> <<RectB>>, page_num |-> 1,
       color |-> Green, annotation_indices |-> <<1>>] }

SeqsUpTo(S, n) == UNION {[1..k -> S] : k \in 0..n}

PersistedSettings ==
    { [NoSettings EXCEPT
           !.last_file = "a.pdf",
           !.annotations = [present |-> TRUE, value |-> json_dumps(anns)],
           !.command_history =
               [present |-> TRUE,
                value |-> json_dumps([undo_stack |-> u, redo_stack |-> r,
                                      max_stack_size |-> DefaultMaxStackSize])]] :
      anns \in SeqsUpTo(AnnotationEntries, MaxEntries),
      u \in SeqsUpTo(CommandEntries, MaxEntries),
      r \in SeqsUpTo(CommandEntries, 1) }
    \cup {NoSettings, [NoSettings EXCEPT !.last_file = "a.pdf"]}

InitLoad ==
    /\ rect_objs = <<>>
    /\ doc = NoDoc
    /\ annotations = <<>>
    /\ undo_stack = <<>>
    /\ redo_stack = <<>>
    /\ max_stack_size = DefaultMaxStackSize
    /\ app = "closed"
    /\ settings \in PersistedSettings
    /\ undo_enabled = FALSE
    /\ redo_enabled = FALSE
    /\ zoom_level = DefaultZoom
    /\ highlight_color = Yellow
    /\ page_widgets = <<>>
    /\ current_selection_info = NoInfo
    /\ last = NoOp
    /\ rt = NoRt
    /\ run = NoRun
    /\ atSave = NoSave
    /\ probe = NoProbe
    /\ sessions = 1

NextLoad == \E exists \in BOOLEAN, opens \in BOOLEAN : load_last_session(exists, opens)

SpecLoad == InitLoad /\ [][NextLoad]_vars

(***************************************************************************)
(* A client that loads a persisted history into the CommandHistory it has  *)
(* been using, over the store as its commands left it.                     *)
(***************************************************************************)
\* the entries of the stacks of the dictionary: the ones of CommandEntries
\* and one whose indices do not match its rectangles
ReloadEntries ==
    CommandEntries
    \cup { [type |-> "highlight", rects |-> <<RectB>>, page_num |-> 1,
            color |-> Green, annotation_indices |-> <<3, 7>>] }

ReloadInputs ==
    { [undo_stack |-> u, redo_stack |-> r, max_stack_size |-> DefaultMaxStackSize] :
      u \in SeqsUpTo(ReloadEntries, MaxEntries),
      r \in SeqsUpTo(ReloadEntries, 1) }

\* history.load_from_dict(data, pdf_doc); a KeyError reaches the client
ClientLoad(data) ==
    LET r == CommandHistory_load_from_dict(History, data, World)
    IN  /\ last.op \in {"execute", "undo"}
        /\ UNCHANGED <<shellVars, probe>>
        /\ Store(r.w, r.h)
        /\ last' = Op("load_dict", ~r.raised,
                      Len(data.undo_stack) + Len(data.redo_stack))
                   @@ [data |-> data]
        /\ rt' = NoRt
        /\ run' = NoRun

\* the client submits commands, undoes some, and then loads a dictionary
NextReload ==
    \/ \E c \in MultiRegionInputs :
           last.op \in {"init", "execute"} /\ HistoryExecute(c)
    \/ last.op \in {"execute", "undo"} /\ HistoryUndo
    \/ \E data \in ReloadInputs : ClientLoad(data)

SpecReload == InitHistory /\ [][NextReload]_vars

(***************************************************************************)
(* A MainWindow built over a persisted session whose last_file may be a    *)
(* file of fewer pages than when the session was saved (b.pdf has one      *)
(* page), and the undo and redo actions used after the load.               *)
(***************************************************************************)
\* entries as save_current_session writes them, for page 0 and for page 1
ReplacedFileAnnotations ==
    { [type |-> "highlight", page |-> 0, color |-> Yellow, rect |-> Pad(RectA)],
      [type |-> "highlight", page |-> 1, color |-> Green, rect |-> Pad(RectB)] }

ReplacedFileCommands ==
    { [type |-> "highlight", rects |-> <<Pad(RectA)>>, page_num |-> 0,
       color |-> Yellow, annotation_indices |-> <<0>>],
      [type |-> "highlight", rects |-> <<Pad(RectB)>>, page_num |-> 1,
       color |-> Green, annotation_indices |-> <<1>>],
      [type |-> "highlight", rects |-> <<Pad(RectB)>>, page_num |-> 1,
       color |-> Green, annotation_indices |-> <<0>>] }

ReplacedFileSettings ==
    { [NoSettings EXCEPT
           !.last_file = f,
           !.annotations = [present |-> TRUE, value |-> json_dumps(anns)],
           !.command_history =
               [present |-> TRUE,
                value |-> json_dumps([undo_stack |-> u, redo_stack |-> r,
                                      max_stack_size |-> DefaultMaxStackSize])]] :
      f \in Files,
      anns \in SeqsUpTo(ReplacedFileAnnotations, MaxEntries),
      u \in SeqsUpTo(ReplacedFileCommands, MaxEntries),
      r \in SeqsUpTo(ReplacedFileCommands, 1) }

InitReplacedFile ==
    /\ rect_objs = <<>>
    /\ doc = NoDoc
    /\ annotations = <<>>
    /\ undo_stack = <<>>
    /\ redo_stack = <<>>
    /\ max_stack_size = DefaultMaxStackSize
    /\ app = "closed"
    /\ settings \in ReplacedFileSettings
    /\ undo_enabled = FALSE
    /\ redo_enabled = FALSE
    /\ zoom_level = DefaultZoom
    /\ highlight_color = Yellow
    /\ page_widgets = <<>>
    /\ current_selection_info = NoInfo
    /\ last = NoOp
    /\ rt = NoRt
    /\ run = NoRun
    /\ atSave = NoSave
    /\ probe = NoProbe
    /\ sessions = 1

NextReplacedFile ==
    \/ \E exists \in BOOLEAN, opens \in BOOLEAN : load_last_session(exists, opens)
    \/ undo_last_action
    \/ redo_last_action

SpecReplacedFile == InitReplacedFile /\ [][NextReplacedFile]_vars

(***************************************************************************)
(* Properties of the command history (SpecHistory).                        *)
(***************************************************************************)
\* the records a submitted command creates: its regions, padded, in order
RecordsOf(c) ==
    [i \in 1..Len(c.rects) |->
        [type |-> "highlight", rect |-> Pad(c.rects[i]),
         page |-> c.page_num, color |-> c.color]]

RECURSIVE RecordsOfAll(_)
RecordsOfAll(cs) ==
    IF cs = <<>> THEN <<>> ELSE RecordsOf(Head(cs)) \o RecordsOfAll(Tail(cs))

\* C1: after History.execute(c); History.undo(); History.redo(), with c of at
\* least one region on page P, the store's records for page P (regions,
\* colors, order) are those it held right after the execute.
C1_ExecuteUndoRedoRoundTrip ==
    rt.step = 3 =>
        PageRecords(StoreVal(rect_objs, annotations), rt.page) = rt.snap

\* C1 witness: a two-region command went through execute, undo and a
\* successful redo while the store held other records too.
C1_Witness ==
    /\ rt.step = 3
    /\ last.op = "redo" /\ last.ok /\ last.n = 2
    /\ Len(rt.snap) > 2

\* C2: after a successful CommandHistory.execute the redo stack is empty and
\* will_lose_redo_history() is false.
C2_BranchingDiscardsRedo ==
    (last.op = "execute" /\ last.ok) =>
        /\ redo_stack = <<>>
        /\ ~will_lose_redo_history(History)

\* C2 witness: an execute succeeded on a history whose redo stack held a
\* command and whose undo stack was not empty.
C2_Witness ==
    /\ last.op = "execute" /\ last.ok /\ last.hadRedo
    /\ Len(undo_stack) >= 2

\* C3: after n executes in a row on an empty history the undo stack holds the
\* min(n, max_stack_size) most recent commands in execution order, and the
\* store still holds the records of every command of the run, evicted or not.
C3_DepthCapFifo ==
    run.valid =>
        LET n == Len(run.cmds)
            k == Min(n, max_stack_size)
            kept == SubSeq(run.cmds, n - k + 1, n)
            before(i) == Len(run.base)
                           + Len(RecordsOfAll(SubSeq(run.cmds, 1, n - k + i - 1)))
        IN  /\ Len(undo_stack) = k
            /\ \A i \in 1..k :
                  CmdVal(rect_objs, undo_stack[i]) =
                      [rects |-> [j \in 1..Len(kept[i].rects) |-> Pad(kept[i].rects[j])],
                       page_num |-> kept[i].page_num,
                       color |-> kept[i].color,
                       annotation_indices |->
                           [j \in 1..Len(kept[i].rects) |-> before(i) + j - 1],
                       removed_annotations |-> <<>>]
            /\ StoreVal(rect_objs, annotations) = run.base \o RecordsOfAll(run.cmds)

\* C3 witness: more commands than the cap were executed in a row, and the
\* first, evicted one had created a record.
C3_Witness ==
    /\ run.valid
    /\ Len(run.cmds) > max_stack_size
    /\ run.cmds[1].rects # <<>>
    /\ run.cmds[Len(run.cmds)].rects # <<>>

\* C4: to_dict(), load_from_dict() into a fresh history bound to a fresh
\* store, then to_dict() again gives the first output again.
C4_SerializationIdempotent ==
    [][last'.op = "reload" =>
          CommandHistory_to_dict(History', rect_objs') =
              CommandHistory_to_dict(History, rect_objs)]_vars

\* C4 witness: a history with commands on both stacks, one of them of two
\* regions, was serialized and loaded.
C4_Witness ==
    /\ last.op = "reload"
    /\ undo_stack # <<>> /\ redo_stack # <<>>
    /\ \E i \in 1..Len(redo_stack) : Len(redo_stack[i].rects) = 2

\* C10: a successful undo moves exactly the top undo command to the top of
\* the redo stack and removes all of its records, and only them, from the
\* store; a successful redo moves the top redo command back to the top of
\* the undo stack and puts its records back among the others.
C10_UndoRedoMoveTop ==
    [][/\ (last'.op = "undo" /\ last'.ok) =>
             LET c == Top(undo_stack)
                 P == OwnedPos(annotations, c)
                 sv == StoreVal(rect_objs, annotations)
             IN  /\ StackVal(rect_objs', undo_stack') =
                        StackVal(rect_objs, Front(undo_stack))
                 /\ StackVal(rect_objs', redo_stack') =
                        Append(StackVal(rect_objs, redo_stack),
                               [CmdVal(rect_objs, c) EXCEPT
                                    !.removed_annotations = KeepPos(sv, P)])
                 /\ Cardinality(P) = Len(c.rects)
                 /\ StoreVal(rect_objs', annotations') =
                        KeepPos(sv, (1..Len(sv)) \ P)
       /\ (last'.op = "redo" /\ last'.ok) =>
             LET c == Top(redo_stack)
                 P == OwnedPos(annotations', Top(undo_stack'))
                 sv == StoreVal(rect_objs', annotations')
             IN  /\ StackVal(rect_objs', redo_stack') =
                        StackVal(rect_objs, Front(redo_stack))
                 /\ StackVal(rect_objs', undo_stack') =
                        Append(StackVal(rect_objs, undo_stack),
                               [CmdVal(rect_objs, c) EXCEPT
                                    !.removed_annotations = <<>>])
                 /\ KeepPos(sv, P) = CmdVal(rect_objs, c).removed_annotations
                 /\ KeepPos(sv, (1..Len(sv)) \ P) =
                        StoreVal(rect_objs, annotations)
      ]_vars

\* C10 witness: a one-region command was undone, emptying its page, with an
\* older command already waiting on the redo stack.
C10_Witness ==
    /\ last.op = "undo" /\ last.ok /\ last.n = 1
    /\ Len(redo_stack) = 2
    /\ PageRecords(StoreVal(rect_objs, annotations), Top(redo_stack).page_num) = <<>>

\* C11: when command.undo() reports failure inside CommandHistory.undo(), the
\* popped command is on neither stack afterwards, every other entry of both
\* stacks is as it was, and undo() returns false.
C11_FailedUndoDropsCommand ==
    [][(/\ last'.op = "undo"
        /\ undo_stack # <<>>
        /\ ~HighlightCommand_undo(Top(undo_stack), World).ok) =>
          /\ ~last'.ok
          /\ StackVal(rect_objs', undo_stack') =
                 StackVal(rect_objs, Front(undo_stack))
          /\ StackVal(rect_objs', redo_stack') = StackVal(rect_objs, redo_stack)
      ]_vars

\* C11 witness: the undo of a one-region command failed in the store while
\* another command was waiting on the redo stack.
C11_Witness ==
    /\ last.op = "undo" /\ ~last.ok /\ last.hadUndo /\ last.n = 1
    /\ redo_stack # <<>>
    /\ annotations # <<>>

\* C12: when command.execute() reports failure inside
\* CommandHistory.execute(command), execute returns false and both stacks are
\* as they were: nothing is pushed and the redo stack is not cleared.
C12_FailedExecuteLeavesStacks ==
    [][HistoryExecuteFailing =>
          /\ ~last'.ok
          /\ StackVal(rect_objs', undo_stack') = StackVal(rect_objs, undo_stack)
          /\ StackVal(rect_objs', redo_stack') = StackVal(rect_objs, redo_stack)
      ]_vars

\* C12 witness: an execute failed on a history with commands on both stacks.
C12_Witness ==
    /\ last.op = "execute" /\ ~last.ok /\ last.hadUndo /\ last.hadRedo
    /\ undo_stack # <<>> /\ redo_stack # <<>>

\* C13: undo() on an empty undo stack and redo() on an empty redo stack
\* return false and leave both stacks and the store as they were.
C13_EmptyStackNoOp ==
    [][/\ (last'.op = "undo" /\ undo_stack = <<>>) =>
             /\ ~last'.ok
             /\ undo_stack' = <<>>
             /\ StackVal(rect_objs', redo_stack') = StackVal(rect_objs, redo_stack)
             /\ StoreVal(rect_objs', annotations') = StoreVal(rect_objs, annotations)
       /\ (last'.op = "redo" /\ redo_stack = <<>>) =>
             /\ ~last'.ok
             /\ redo_stack' = <<>>
             /\ StackVal(rect_objs', undo_stack') = StackVal(rect_objs, undo_stack)
             /\ StoreVal(rect_objs', annotations') = StoreVal(rect_objs, annotations)
      ]_vars

\* C13 witness: redo() was called on an empty redo stack while the undo stack
\* held a command and the store a record.
C13_Witness ==
    /\ last.op = "redo" /\ ~last.ok /\ ~last.hadRedo /\ last.hadUndo
    /\ undo_stack # <<>>
    /\ annotations # <<>>

\* C14: a successful redo() removes only the top entry of the redo stack,
\* the entries below it staying in place and in order, and adds only the
\* redone command to the undo stack, whose oldest entry leaves if the cap is
\* exceeded.
C14_RedoDoesNotBranch ==
    [][(last'.op = "redo" /\ last'.ok) =>
          LET old == StackVal(rect_objs, undo_stack)
              new == StackVal(rect_objs', undo_stack')
              c == CmdVal(rect_objs, Top(redo_stack))
          IN  /\ StackVal(rect_objs', redo_stack') =
                     StackVal(rect_objs, Front(redo_stack))
              /\ new # <<>>
              /\ Front(new) = IF Len(old) + 1 > max_stack_size THEN Tail(old)
                              ELSE old
              /\ Top(new).rects = c.rects
              /\ Top(new).page_num = c.page_num
              /\ Top(new).color = c.color
      ]_vars

\* C14 witness: a redo succeeded with another command left on the redo stack.
C14_Witness ==
    /\ last.op = "redo" /\ last.ok
    /\ redo_stack # <<>>
    /\ undo_stack # <<>>

(***************************************************************************)
(* Properties of the annotation store (SpecStore).                         *)
(***************************************************************************)
\* C16: after N add_highlight calls and remove_annotation calls for indices
\* in strictly descending order, the store is its content after the adds
\* minus the records that were at those indices, the others in their order.
C16_DescendingRemovalExact ==
    probe.kind = "store" =>
        StoreVal(rect_objs, annotations) =
            KeepPos(probe.base,
                    (1..Len(probe.base)) \ {i + 1 : i \in probe.removed})

(***************************************************************************)
(* Properties of the line grouping (SpecLines).                            *)
(***************************************************************************)
\* the boxes that start a line of the range lo..hi (counted from 1): the
\* first box, and every box whose top is more than half its height away
\* from the top of the box that started the current line
LineStarts(blocks, lo, hi) ==
    CHOOSE S \in SUBSET (lo..hi) :
        /\ lo \in S
        /\ \A i \in (lo + 1)..hi :
               LET before == {s \in S : s < i}
                   anchor == CHOOSE s \in before : \A u \in before : u <= s
               IN  i \in S <=>
                       2 * Abs(blocks[i].rect.y - blocks[anchor].rect.y)
                           > blocks[i].rect.height

\* the rectangle of the line that starts at box s: from the least x to the
\* greatest x + width of its boxes, with the y and height of its first box,
\* in document coordinates
LineOf(blocks, S, s, hi, zoom) ==
    LET later == {u \in S : u > s}
        stop == IF later = {} THEN hi
                ELSE (CHOOSE u \in later : \A v \in later : u <= v) - 1
        xs == {blocks[i].rect.x : i \in s..stop}
        xe == {blocks[i].rect.x + blocks[i].rect.width : i \in s..stop}
    IN  [x0 |-> (CHOOSE v \in xs : \A u \in xs : v <= u) \div zoom,
         y0 |-> blocks[s].rect.y \div zoom,
         x1 |-> (CHOOSE v \in xe : \A u \in xe : v >= u) \div zoom,
         y1 |-> (blocks[s].rect.y + blocks[s].rect.height) \div zoom]

\* C17: the grouping produces one rectangle per visual line of the selected
\* range, in order: a line starts at a box whose vertical position differs
\* from that of the line's first box by more than half a line height, and
\* the rectangle of a line spans the least x to the greatest x + width of
\* its boxes with the y and height of its first box.
C17_OneRectPerLine ==
    probe.kind = "lines" =>
        LET lo == probe.start_idx + 1
            hi == probe.end_idx + 1
            S == LineStarts(probe.blocks, lo, hi)
        IN  /\ Len(probe.selected_rects) = Cardinality(S)
            /\ \A k \in 1..Len(probe.selected_rects) :
                   \E s \in S :
                       /\ Cardinality({u \in S : u <= s}) = k
                       /\ probe.selected_rects[k]
                              = LineOf(probe.blocks, S, s, hi, probe.zoom)

\* C17, the case of the two lines at y = 0 and y = 12 of height 10, the
\* whole range selected: two rectangles, each as wide as its line
C17_TwoLinesExample ==
    (/\ probe.kind = "lines"
     /\ probe.start_idx = 0 /\ probe.end_idx = 3
     /\ \A i \in 1..4 :
            /\ probe.blocks[i].rect.height = 10 * probe.zoom
            /\ probe.blocks[i].rect.y = (IF i <= 2 THEN 0 ELSE 12 * probe.zoom))
    => probe.selected_rects = << [x0 |-> 10, y0 |-> 0, x1 |-> 30, y1 |-> 10],
                                 [x0 |-> 10, y0 |-> 12, x1 |-> 30, y1 |-> 22] >>

\* the hit-boxes blocks1 at zoom1 and blocks2 at zoom2 are the same boxes of
\* the document: box by box, the same character and the same rectangle
\* once divided by the zoom
SameDocBoxes(blocks1, zoom1, blocks2, zoom2) ==
    /\ Len(blocks1) = Len(blocks2)
    /\ \A i \in 1..Len(blocks1) :
           /\ blocks1[i].text = blocks2[i].text
           /\ blocks1[i].rect.x * zoom2 = blocks2[i].rect.x * zoom1
           /\ blocks1[i].rect.y * zoom2 = blocks2[i].rect.y * zoom1
           /\ blocks1[i].rect.width * zoom2 = blocks2[i].rect.width * zoom1
           /\ blocks1[i].rect.height * zoom2 = blocks2[i].rect.height * zoom1

\* C30: for the same hit-boxes of the document and the same index range, the
\* grouping gives the same rectangles (as many, of the same lines, with the
\* same document coordinates) at every zoom: two groupings one after the
\* other that differ only in the zoom have the same result.
C30_ZoomIndependent ==
    [][(/\ probe.kind = "lines" /\ probe'.kind = "lines"
        /\ SameDocBoxes(probe.blocks, probe.zoom, probe'.blocks, probe'.zoom)
        /\ probe'.start_idx = probe.start_idx
        /\ probe'.end_idx = probe.end_idx)
       => probe'.selected_rects = probe.selected_rects]_vars

(***************************************************************************)
(* Properties of the load of a persisted session (SpecLoad).               *)
(***************************************************************************)
\* an entry that load_last_session / load_from_dict can read
ValidAnnotation(d) == AnnotationKeys \subseteq DOMAIN d
ValidCommand(d) ==
    "type" \in DOMAIN d /\ d.type = "highlight" /\ CommandKeys \subseteq DOMAIN d

\* the persisted state without its invalid entries
ValidEntries(s) ==
    [s EXCEPT
         !.annotations.value =
             json_dumps(SelectSeq(json_loads(@), ValidAnnotation)),
         !.command_history.value =
             json_dumps([json_loads(@) EXCEPT
                             !.undo_stack = SelectSeq(@, ValidCommand),
                             !.redo_stack = SelectSeq(@, ValidCommand)])]

\* C18: a load that opens the document restores every valid annotation
\* entry and every valid history entry of the persisted state, whatever
\* invalid entries stand among them: the store and the stacks are the ones a
\* load of the state without its invalid entries gives.
C18_CorruptEntrySkipped ==
    [][(/\ last'.op = "load" /\ last'.ok
        /\ settings.annotations.present /\ settings.command_history.present)
       => LET r == LoadSession(ValidEntries(settings), TRUE, TRUE)
          IN  /\ StoreVal(rect_objs', annotations')
                     = StoreVal(r.w.heap, r.w.annotations)
              /\ StackVal(rect_objs', undo_stack')
                     = StackVal(r.w.heap, r.h.undo_stack)
              /\ StackVal(rect_objs', redo_stack')
                     = StackVal(r.w.heap, r.h.redo_stack)]_vars

\* the position of step in steps, 0 when it is not there
StepAt(steps, step) ==
    IF \E i \in 1..Len(steps) : steps[i] = step
    THEN CHOOSE i \in 1..Len(steps) : steps[i] = step
    ELSE 0

\* C19: the store entries and the history are restored only when the
\* persisted last_file exists and opens; the load then opens the document,
\* restores the store entries through add_highlight, reconstructs the
\* stacks and renders, in this order, and never loads the history before
\* the store entries.
C19_RestoreConditionalOrdered ==
    last.op = "load" =>
        LET steps == last.steps
            at(step) == StepAt(steps, step)
        IN  /\ ~(last.found /\ last.opened) =>
                   /\ annotations = <<>> /\ undo_stack = <<>> /\ redo_stack = <<>>
                   /\ at("add_highlight") = 0 /\ at("load_from_dict") = 0
                   /\ at("render_pdf") = 0
            /\ ~last.found => steps = <<>>
            /\ (last.found /\ last.opened) =>
                   /\ at("open") = 1
                   /\ at("render_pdf") = Len(steps)
                   /\ settings.annotations.present => at("add_highlight") = 2
                   /\ settings.command_history.present =>
                          at("load_from_dict") > at("add_highlight")
                   /\ at("load_from_dict") # 0 => at("load_from_dict") < at("render_pdf")

C19_Witness ==
    /\ last.op = "load" /\ last.found /\ last.opened
    /\ last.steps = <<"open", "add_highlight", "load_from_dict", "render_pdf">>
    /\ Len(annotations) = 2
    /\ Len(undo_stack) = 2
    /\ redo_stack # <<>>

(***************************************************************************)
(* Properties of a session saved and loaded again (Spec).                  *)
(***************************************************************************)
\* the records a command has in the store, each with its 0-based position
RecordsAt(heap, anns, c) ==
    {<<i - 1, AnnVal(heap, anns[i])>> : i \in OwnedPos(anns, c)}

\* C5: the redo of a command restored onto the redo stack gives the store the
\* records (regions, page, color, positions) that the redo of that command
\* would have given it in the session that was saved.
C5_RestoredRedoSameRecords ==
    (last.op = "redo" /\ last.ok /\ last.afterLoad /\ atSave.redoKnown) =>
        RecordsAt(rect_objs, annotations, Top(undo_stack)) = atSave.redoRecords

\* C6: the undo of a command restored onto the undo stack removes from the
\* restored store the records at the positions of the records that command
\* created in the session that was saved, and no other record.
C6_RestoredUndoRemovesOwn ==
    [][(last.op = "load" /\ last.ok /\ atSave.undoKnown
            /\ last'.op = "undo" /\ last'.ok) =>
          LET sv == StoreVal(rect_objs, annotations)
          IN  /\ Len(sv) = Len(atSave.store)
              /\ StoreVal(rect_objs', annotations') =
                     KeepPos(sv, (1..Len(sv)) \ atSave.undoOwned)
      ]_vars

\* C6 witness: the first operation after a load undid the restored top
\* command, of two regions.
C6_Witness ==
    /\ last.op = "undo" /\ last.ok /\ last.afterLoad /\ last.n = 2
    /\ atSave.undoKnown
    /\ Cardinality(atSave.undoOwned) = 2

\* C7: a load leaves the store with the records it held when the session was
\* saved: as many, in the same order, each with the same page, color and
\* region.
C7_AnnotationsPersist ==
    (last.op = "load" /\ last.ok) =>
        StoreVal(rect_objs, annotations) = atSave.store

\* whether the loop of HighlightCommand.undo, walking idxs over the store of
\* w, comes to an index that is not a position of the store at that moment
RECURSIVE MeetsInvalidIndex(_, _)
MeetsInvalidIndex(idxs, w) ==
    IF idxs = <<>> THEN FALSE
    ELSE LET idx == Head(idxs)
         IN  IF 0 <= idx /\ idx < Len(w.annotations)
             THEN LET r == remove_annotation(w, idx)
                  IN  r.ok /\ MeetsInvalidIndex(Tail(idxs), r.w)
             ELSE TRUE

\* C15: HighlightCommand.undo() reports failure when one of its recorded
\* indices is not a valid position of the store at the moment it is
\* processed, so that the undo of the history reports failure too.
C15_UndoAbortsOnInvalidIndex ==
    [][(/\ last'.op = "undo"
        /\ undo_stack # <<>>
        /\ MeetsInvalidIndex(Reverse(Top(undo_stack).annotation_indices), World)) =>
          ~last'.ok
      ]_vars

(***************************************************************************)
(* Properties of the shell within one run (SpecSession).                   *)
(***************************************************************************)
\* C8: after open_pdf succeeds on another path than the open document's, the
\* store holds no record.
C8_StoreClearedOnOpen ==
    [][(last'.op = "open" /\ last'.ok /\ doc # NoDoc /\ doc' # doc) =>
          annotations' = <<>>]_vars

\* C9: after open_pdf succeeds both stacks are empty; when the open fails
\* both stacks are as they were.
C9_HistoryClearedOnOpen ==
    [][/\ (last'.op = "open" /\ last'.ok) =>
             undo_stack' = <<>> /\ redo_stack' = <<>>
       /\ (last'.op = "open" /\ ~last'.ok) =>
             /\ StackVal(rect_objs', undo_stack') = StackVal(rect_objs, undo_stack)
             /\ StackVal(rect_objs', redo_stack') = StackVal(rect_objs, redo_stack)
      ]_vars

\* C9 witness: open_pdf succeeded on a history with commands on both stacks.
C9_Witness ==
    /\ last.op = "open" /\ last.ok /\ last.hadUndo /\ last.hadRedo
    /\ annotations # <<>>

\* C20: a highlight submitted through highlight_selected_text empties a
\* non-empty redo stack only when the warning was shown and answered Yes or
\* the hide_redo_warning setting is on; when the warning is answered No,
\* the store, the undo stack and the redo stack are unchanged.
C20_WarnedBeforeRedoLoss ==
    [][(last'.op = "highlight" /\ last' # last) =>
           /\ (redo_stack # <<>> /\ redo_stack' = <<>>) =>
                  \/ last'.warned /\ last'.reply = "Yes"
                  \/ settings.hide_redo_warning
           /\ (last'.warned /\ last'.reply = "No") =>
                  /\ StoreVal(rect_objs', annotations') = StoreVal(rect_objs, annotations)
                  /\ StackVal(rect_objs', undo_stack') = StackVal(rect_objs, undo_stack)
                  /\ StackVal(rect_objs', redo_stack') = StackVal(rect_objs, redo_stack)
                  /\ redo_stack' # <<>>]_vars

\* the warning was answered Yes and the redo history is gone
C20_Witness ==
    /\ last.op = "highlight" /\ last.ok
    /\ last.hadRedo /\ last.warned /\ last.reply = "Yes"
    /\ redo_stack = <<>>

\* the warning was answered No and the redo history is still there
C20_WitnessDeclined ==
    /\ last.op = "highlight"
    /\ last.warned /\ last.reply = "No"
    /\ redo_stack # <<>>

(***************************************************************************)
(* Properties of the commands on the stacks across sessions (Spec).        *)
(***************************************************************************)
\* C21: every command on the undo stack or on the redo stack has as many
\* annotation_indices as rects, also after the redo of a command that was
\* restored from the persisted state.
C21_IndicesMatchRects ==
    /\ \A i \in 1..Len(undo_stack) :
           Len(undo_stack[i].rects) = Len(undo_stack[i].annotation_indices)
    /\ \A i \in 1..Len(redo_stack) :
           Len(redo_stack[i].rects) = Len(redo_stack[i].annotation_indices)

\* the members of a set of numbers, in ascending order
RECURSIVE Ascending(_)
Ascending(S) ==
    IF S = {} THEN <<>>
    ELSE LET m == CHOOSE x \in S : \A y \in S : x <= y
         IN  <<m>> \o Ascending(S \ {m})

\* C22, execute: after a successful HighlightCommand.execute(), by a new
\* command or by a redo, the command's removed_annotations is empty.
C22_ExecuteEmptiesSnapshot ==
    (last.op \in {"execute", "highlight", "redo"} /\ last.ok /\ undo_stack # <<>>)
        => Top(undo_stack).removed_annotations = <<>>

\* C22: after a successful HighlightCommand.undo() the command's
\* annotation_indices are unchanged and its removed_annotations holds
\* exactly the records removed from the store, one per index, in ascending
\* order of their positions in the store before the undo; and a successful
\* execute leaves removed_annotations empty.
C22_SnapshotBookkeeping ==
    [][/\ C22_ExecuteEmptiesSnapshot'
       /\ (/\ last'.op = "undo" /\ last'.ok
           /\ Len(undo_stack') = Len(undo_stack) - 1)
          => LET c == Top(undo_stack)
                 c2 == Top(redo_stack')
                 before == StoreVal(rect_objs, annotations)
                 idxs == Ascending({c.annotation_indices[k] :
                                        k \in 1..Len(c.annotation_indices)})
                 removed == StoreVal(rect_objs', c2.removed_annotations)
             IN  /\ c2.annotation_indices = c.annotation_indices
                 /\ Len(removed) = Len(c.annotation_indices)
                 /\ \A k \in 1..Len(removed) :
                        /\ idxs[k] < Len(before)
                        /\ removed[k] = before[idxs[k] + 1]
                 /\ StoreVal(rect_objs', annotations')
                        = KeepPos(before, (1..Len(before))
                                          \ {idxs[k] + 1 : k \in 1..Len(idxs)})]_vars

\* a command of two regions was undone: its snapshot holds two records
C22_Witness ==
    /\ last.op = "undo" /\ last.ok
    /\ redo_stack # <<>>
    /\ Len(Top(redo_stack).removed_annotations) = 2
    /\ Len(Top(redo_stack).annotation_indices) = 2
    /\ annotations # <<>>

(***************************************************************************)
(* Properties of commands of several regions (SpecAtomic).                 *)
(***************************************************************************)
\* all the records of command c are in the store, or none of them is
CommandWhole(anns, c) ==
    Cardinality(OwnedPos(anns, c)) \in {0, Len(c.rects)}

\* C23: after any CommandHistory operation, successful or not, every
\* command has all of its regions' records in the store or none of them:
\* the commands on the two stacks, and the command an undo has just
\* popped, whose records are either all still there (the undo failed) or
\* all removed, never only some of them.
C23_MultiRegionAtomic ==
    [][/\ \A i \in 1..Len(undo_stack') : CommandWhole(annotations', undo_stack'[i])
       /\ \A i \in 1..Len(redo_stack') : CommandWhole(annotations', redo_stack'[i])
       /\ (last'.op = "undo" /\ undo_stack # <<>>) =>
              LET c == Top(undo_stack)
                  sv == StoreVal(rect_objs, annotations)
                  P == OwnedPos(annotations, c)
                  after == StoreVal(rect_objs', annotations')
              IN  /\ Cardinality(P) = Len(c.rects)
                  /\ \/ after = sv
                     \/ after = KeepPos(sv, (1..Len(sv)) \ P)
                  /\ ~last'.ok => after = sv]_vars

\* the undo of a two-region command failed in the store
C23_Witness ==
    /\ last.op = "undo" /\ ~last.ok /\ last.hadUndo /\ last.n = 2
    /\ Len(annotations) >= 2

(***************************************************************************)
(* Further properties of the command history (SpecHistory).                *)
(***************************************************************************)
\* the records the commands a client submits can create
SubmittedRecords ==
    UNION { {RecordsOf(c)[j] : j \in 1..Len(c.rects)} : c \in CommandInputs }

\* C24: within one session, after any sequence of execute, undo and redo,
\* every record of the store has the region submitted in its command
\* widened by exactly 1 on each side in x, y unchanged, with the command's
\* page and color: no undo and no redo pads a record again.
C24_PaddedExactlyOnce ==
    \A i \in 1..Len(annotations) :
        AnnVal(rect_objs, annotations[i]) \in SubmittedRecords

\* a two-region command was undone and redone, and its records are back
C24_Witness ==
    /\ last.op = "redo" /\ last.ok /\ last.n = 2
    /\ undo_stack # <<>>
    /\ Cardinality(OwnedPos(annotations, Top(undo_stack))) = 2

\* C25: a command keeps its own regions: after HighlightCommand.execute()
\* the command's to_dict() emits the rects the command was built with.
C25_CommandRectsUnchanged ==
    (/\ last.op = "execute" /\ last.ok /\ last.n >= 1
     /\ run.valid /\ undo_stack # <<>>)
    => HighlightCommand_to_dict(Top(undo_stack), rect_objs).rects
           = run.cmds[Len(run.cmds)].rects

(***************************************************************************)
(* Properties of the redo of a snapshot (SpecRedo).                        *)
(***************************************************************************)
\* the store after the first k records of the snapshot went back, each at
\* its recorded index if that is at most the length of the store at that
\* moment, and at the end otherwise
Reinserted(store, idxs, recs) ==
    LET m == Min(Len(idxs), Len(recs))
        F[k \in 0..m] ==
            IF k = 0 THEN store
            ELSE IF idxs[k] <= Len(F[k - 1])
                 THEN InsertAt(F[k - 1], idxs[k], recs[k])
                 ELSE Append(F[k - 1], recs[k])
    IN  F[m]

\* C26: a redo of a command that holds a snapshot puts each record of the
\* snapshot back, in order, at its recorded index when the index is at most
\* the current length of the store and at the end of the store otherwise;
\* it succeeds whatever the indices are.
C26_RedoReinsertionPolicy ==
    [][(/\ last'.op = "redo" /\ redo_stack # <<>>
        /\ Len(redo_stack') = Len(redo_stack) - 1
        /\ Top(redo_stack).removed_annotations # <<>>)
       => LET c == Top(redo_stack)
          IN  /\ last'.ok
              /\ StoreVal(rect_objs', annotations')
                     = Reinserted(StoreVal(rect_objs, annotations),
                                  c.annotation_indices,
                                  StoreVal(rect_objs, c.removed_annotations))]_vars

\* a redo put the two records of a snapshot back at the end of a store that
\* had become shorter than their recorded indices 1 and 2
C26_Witness ==
    /\ last.op = "redo" /\ last.ok /\ last.n = 2
    /\ undo_stack # <<>>
    /\ Top(undo_stack).annotation_indices = <<1, 2>>
    /\ OwnedPos(annotations, Top(undo_stack)) = {1, 2}
    /\ Len(annotations) = 2

(***************************************************************************)
(* Further properties of the annotation store (SpecStore).                 *)
(***************************************************************************)
\* C27: a PDFDocument.remove_annotation(index) that returns False leaves the
\* store as it was: when index is outside 0..len-1 nothing is touched, and
\* when the removal fails after the record was popped the record is put
\* back at the same index.
C27_FailedRemovalNoSideEffect ==
    [][\A index \in -1..MaxStore :
           ((StoreRemove(index) \/ StoreRemoveOutside(index))
            /\ ~remove_annotation(World, index).ok)
           => /\ ~probe'.ok
              /\ StoreVal(rect_objs', annotations')
                     = StoreVal(rect_objs, annotations)
              /\ (index < 0 \/ index >= Len(annotations)
                  \/ (doc # NoDoc
                      /\ ~PageLoads(World, annotations[index + 1].page)))]_vars

\* a removal failed inside the store at an index that is not the last one
C27_Witness ==
    /\ probe.kind = "store" /\ ~probe.ok
    /\ probe.removed # {}
    /\ probe.low + 1 < Len(annotations)
    /\ doc # NoDoc
    /\ ~PageLoads(World, annotations[probe.low + 1].page)
    /\ PageLoads(World, annotations[Len(annotations)].page)

\* a removal with an index beyond the end of a store of two records failed
C27_WitnessOutside ==
    /\ probe.kind = "store" /\ ~probe.ok
    /\ probe.removed = {}
    /\ Len(annotations) = 2

(***************************************************************************)
(* Properties of a selection beyond the hit-boxes (SpecSelection).         *)
(***************************************************************************)
\* the selection of page widget p starts at or beyond the number of its
\* hit-boxes
EmptyRange(p) ==
    /\ p \in 1..Len(page_widgets)
    /\ page_widgets[p].selection_start # None
    /\ page_widgets[p].selection_end # None
    /\ Min(page_widgets[p].selection_start, page_widgets[p].selection_end)
           >= Len(TextBlocks(doc, p - 1, zoom_level))

\* C28: when the selected index range starts at or beyond the number of
\* hit-boxes, highlight_selected_text produces no rectangle and submits no
\* command: the store, the undo stack and the redo stack are as they were.
C28_EmptySelectionNoOp ==
    [][\A reply \in {"Yes", "No"}, checkbox \in BOOLEAN :
           (/\ highlight_selected_text(reply, checkbox)
            /\ EmptyRange(current_selection_info.page_num + 1))
           => /\ last'.op = "highlight" /\ last'.n = 0 /\ ~last'.ok
              /\ StoreVal(rect_objs', annotations')
                     = StoreVal(rect_objs, annotations)
              /\ StackVal(rect_objs', undo_stack') = StackVal(rect_objs, undo_stack)
              /\ StackVal(rect_objs', redo_stack') = StackVal(rect_objs, redo_stack)]_vars

\* a highlight of a range beyond the hit-boxes was asked for while a command
\* was waiting on the redo stack
C28_Witness ==
    /\ last.op = "highlight" /\ last.n = 0 /\ ~last.ok /\ last.hadRedo
    /\ redo_stack # <<>>
    /\ ~last.warned

(***************************************************************************)
(* Properties of the word-boundary lookup (SpecWords).                     *)
(***************************************************************************)
\* C29: for a valid index i into a non-empty sequence of units,
\* find_word_boundaries returns start <= i <= end with no whitespace unit in
\* start..i-1 or in i+1..end, the unit before start whitespace unless start
\* is 0, and the unit after end whitespace unless end is the last index.
C29_WordBoundaries ==
    (probe.kind = "word" /\ probe.char_idx # None /\ probe.text_blocks # <<>>)
    => LET u == probe.text_blocks
           i == probe.char_idx
           start == probe.start
           end == probe.end
       IN  /\ start # None /\ end # None
           /\ 0 <= start /\ start <= i /\ i <= end /\ end <= Len(u) - 1
           /\ \A k \in start..(i - 1) : ~isspace(u[k + 1].text)
           /\ \A k \in (i + 1)..end : ~isspace(u[k + 1].text)
           /\ start = 0 \/ isspace(u[start].text)
           /\ end = Len(u) - 1 \/ isspace(u[end + 2].text)

\* a word of two units found between two whitespace units, from its second
\* unit
C29_Witness ==
    /\ probe.kind = "word"
    /\ Len(probe.text_blocks) = 4
    /\ isspace(probe.text_blocks[1].text) /\ isspace(probe.text_blocks[4].text)
    /\ probe.char_idx = 2 /\ probe.start = 1 /\ probe.end = 2

\* the lookup on a whitespace unit between two words takes in both words
C29_WitnessOnWhitespace ==
    /\ probe.kind = "word"
    /\ probe.char_idx # None /\ probe.text_blocks # <<>>
    /\ isspace(probe.text_blocks[probe.char_idx + 1].text)
    /\ probe.start < probe.char_idx /\ probe.char_idx < probe.end

(***************************************************************************)
(* Properties of the load of a dictionary into a used history (SpecReload). *)
(***************************************************************************)
\* the commands load_from_dict makes of the entries of one stack of the
\* dictionary: the entries of type 'highlight', in order, as from_dict reads
\* them, with nothing removed
Recognized(datas) ==
    LET hs == SelectSeq(datas, LAMBDA d : d.type = "highlight")
    IN  [i \in 1..Len(hs) |->
            [rects |-> hs[i].rects, page_num |-> hs[i].page_num,
             color |-> hs[i].color,
             annotation_indices |-> hs[i].annotation_indices,
             removed_annotations |-> <<>>]]

\* no entry of the dictionary makes load_from_dict raise KeyError
Readable(data) ==
    \A s \in {data.undo_stack, data.redo_stack} :
        \A i \in 1..Len(s) :
            /\ "type" \in DOMAIN s[i]
            /\ s[i].type = "highlight" => CommandKeys \subseteq DOMAIN s[i]

\* C31: load_from_dict does not replay the history it reads: for a
\* dictionary it reads to the end, the store is left as it was, what the two
\* stacks held before is gone, and each stack holds the commands of the
\* entries of type 'highlight' of the dictionary, in their order, with the
\* annotation_indices of the entries.
C31_LoadDoesNotReplay ==
    [][(last'.op = "load_dict" /\ Readable(last'.data))
       => /\ last'.ok
          /\ StoreVal(rect_objs', annotations') = StoreVal(rect_objs, annotations)
          /\ StackVal(rect_objs', undo_stack') = Recognized(last'.data.undo_stack)
          /\ StackVal(rect_objs', redo_stack') = Recognized(last'.data.redo_stack)]_vars

\* a dictionary with an entry of unknown type and an entry whose indices lie
\* beyond the store was loaded over a store of two records: the store kept
\* its records and the undo stack holds the one command of the dictionary
C31_Witness ==
    /\ last.op = "load_dict" /\ last.ok /\ last.n = 3
    /\ Len(annotations) = 2
    /\ Len(undo_stack) = 1
    /\ undo_stack[1].annotation_indices = <<3, 7>>
    /\ Len(redo_stack) = 1

(***************************************************************************)
(* Properties of the undo and redo actions of the window.                  *)
(***************************************************************************)
\* C32: after every operation of the shell that touches the history, an undo
\* that fails and drops its command included, the undo action is enabled
\* exactly when the undo stack is not empty and the redo action exactly when
\* the redo stack is not empty.
C32_ActionsTrackHistory ==
    (app = "running"
     /\ last.op \in {"highlight", "undo", "redo", "open", "load"})
    => /\ undo_enabled = (undo_stack # <<>>)
       /\ redo_enabled = (redo_stack # <<>>)

(***************************************************************************)
(* Properties of the store against the history (SpecAccount).              *)
(***************************************************************************)
\* the records of command c as it stands on a stack: one per region, in
\* region order, by value
RecordsOfCommand(c) ==
    [j \in 1..Len(c.rects) |->
        [type |-> "highlight", rect |-> rect_objs[c.rects[j]],
         page |-> c.page_num, color |-> c.color]]

RECURSIVE RecordsOfStack(_)
RecordsOfStack(s) ==
    IF s = <<>> THEN <<>>
    ELSE RecordsOfCommand(Head(s)) \o RecordsOfStack(Tail(s))

\* C33: in every state reached from an empty store and an empty history by
\* execute, undo and redo, the store is the records of the evicted commands
\* followed by the records of the commands of the undo stack from bottom to
\* top, each command's records in region order, and the annotation_indices
\* of each command of the undo stack are the positions of its own records.
C33_StoreMatchesUndoStack ==
    /\ StoreVal(rect_objs, annotations)
           = EvictedRecords \o RecordsOfStack(undo_stack)
    /\ \A i \in 1..Len(undo_stack) :
           LET c == undo_stack[i]
           IN  /\ Len(c.annotation_indices) = Len(c.rects)
               /\ \A j \in 1..Len(c.rects) :
                      /\ c.annotation_indices[j] + 1 \in 1..Len(annotations)
                      /\ annotations[c.annotation_indices[j] + 1].rect = c.rects[j]

\* C34: in every state reached from an empty history by execute, undo and
\* redo, the two stacks together hold no more commands than max_stack_size:
\* each stack alone is within the cap, and the push of CommandHistory.undo
\* onto the redo stack never finds the redo stack full.
C34_StacksWithinCap ==
    [][/\ Len(undo_stack') + Len(redo_stack') <= max_stack_size'
       /\ Len(undo_stack') <= max_stack_size'
       /\ Len(redo_stack') <= max_stack_size'
       /\ (AccountUndo /\ undo_stack # <<>>)
          => /\ Len(redo_stack) < max_stack_size
             /\ last'.ok => Len(redo_stack') = Len(redo_stack) + 1]_vars

\* C34 witness: a full undo stack was undone to the bottom, so that the redo
\* stack holds max_stack_size commands after commands had been evicted
C34_Witness ==
    /\ last.op = "undo" /\ last.ok
    /\ undo_stack = <<>>
    /\ Len(redo_stack) = max_stack_size
    /\ EvictedRecords # <<>>

(***************************************************************************)
(* Properties of the search (SpecSearch).                                  *)
(***************************************************************************)
\* C35: a search edits no annotation: perform_search, with
\* highlight_search_result, leaves the store, the undo stack and the redo
\* stack as they were, whatever was selected before it.
C35_SearchLeavesAnnotations ==
    [][\A text_typed \in Queries, reply \in {"Yes", "No"}, checkbox \in BOOLEAN :
           perform_search(text_typed, reply, checkbox)
           => /\ StoreVal(rect_objs', annotations')
                     = StoreVal(rect_objs, annotations)
              /\ StackVal(rect_objs', undo_stack') = StackVal(rect_objs, undo_stack)
              /\ StackVal(rect_objs', redo_stack') = StackVal(rect_objs, redo_stack)]_vars

(***************************************************************************)
(* Properties of the marks painted on the document (SpecPaint).            *)
(***************************************************************************)
\* how many times x stands in s
Count(s, x) == Cardinality({i \in 1..Len(s) : s[i] = x})

\* C36: after highlights, undos, redos and renders followed by a save, the
\* highlight marks of each page are the marks the file came with and one
\* mark for each record the store holds for that page: no record is painted
\* twice, and no mark of an undone command or of the file is added or lost.
C36_EachRecordPaintedOnce ==
    (probe.kind = "marks" /\ last.op = "save")
    => \A p \in 1..Len(probe.marks) :
           LET painted == probe.marks[p]
               records == SelectSeq(annotations, LAMBDA ann : ann.page = p - 1)
               wanted == probe.own[p]
                         \o [i \in 1..Len(records) |-> MarkOf(rect_objs, records[i])]
           IN  /\ Len(painted) = Len(wanted)
               /\ \A i \in 1..Len(wanted) :
                      Count(painted, wanted[i]) = Count(wanted, wanted[i])

\* C37: a HighlightCommand of no region given to CommandHistory.execute
\* succeeds and adds no record: it is pushed onto the undo stack, the redo
\* stack is cleared and the store is as it was.  CommandHistory.undo with
\* such a command on top returns false and drops it: the rest of the undo
\* stack, the redo stack and the store are as they were.
C37_ZeroRegionCommand ==
    [][/\ \A c \in CommandInputs :
              (AccountExecute(c) /\ c.rects = <<>>)
              => /\ last'.ok
                 /\ StoreVal(rect_objs', annotations')
                        = StoreVal(rect_objs, annotations)
                 /\ StackVal(rect_objs', undo_stack')
                        = (IF Len(undo_stack) < max_stack_size
                           THEN StackVal(rect_objs, undo_stack)
                           ELSE Tail(StackVal(rect_objs, undo_stack)))
                          \o << [rects |-> <<>>, page_num |-> c.page_num,
                                 color |-> c.color, annotation_indices |-> <<>>,
                                 removed_annotations |-> <<>>] >>
                 /\ redo_stack' = <<>>
       /\ (AccountUndo /\ undo_stack # <<>> /\ Top(undo_stack).rects = <<>>)
          => /\ ~last'.ok
             /\ StackVal(rect_objs', undo_stack')
                    = StackVal(rect_objs, Front(undo_stack))
             /\ StackVal(rect_objs', redo_stack') = StackVal(rect_objs, redo_stack)
             /\ StoreVal(rect_objs', annotations')
                    = StoreVal(rect_objs, annotations)]_vars

\* C37 witness: the undo of a command of no region failed and dropped it,
\* over a store with records and with a command on the redo stack
C37_Witness ==
    /\ last.op = "undo" /\ ~last.ok /\ last.hadUndo /\ last.n = 0
    /\ annotations # <<>>
    /\ redo_stack # <<>>

\* C37 witness: a command of no region was executed on a full undo stack
\* while a command was on the redo stack
C37_WitnessExecute ==
    /\ last.op = "execute" /\ last.ok /\ last.n = 0 /\ last.hadRedo
    /\ Len(undo_stack) = max_stack_size
    /\ Top(undo_stack).rects = <<>>
    /\ redo_stack = <<>>
====
